---- MODULE Spec2Model ----
(***************************************************************************)
(* A model of rtf-toolkit: the recursive-descent parser that turns a token *)
(* stream into an RTFDocument (src/src/parser/parser.ts) and the           *)
(* track-changes engine that extracts, accepts and rejects revisions       *)
(* (src/unnamed/part_003).                                                 *)
(*                                                                         *)
(* A string is a sequence of characters, each character a record [ch |->   *)
(* c], so that a node's content compares with any other node's content.    *)
(* An optional property of a JavaScript object (author?, timestamp?,       *)
(* hasRevisions?, bold?, ...) that is undefined is a record field that is  *)
(* absent.  Array indices in records (paragraphIndex, inlineIndex) are     *)
(* 0-based as in the source.                                               *)
(***************************************************************************)
EXTENDS Integers, Naturals, Sequences, FiniteSets, TLC

VARIABLES
  heapDocs,   \* the document objects allocated so far, by reference (1..)
  heapParas,  \* the paragraph objects allocated so far, by reference (1..)
  call,       \* the last track-changes call: its name, argument and id
  retDoc,     \* what that call returned: a document reference or Null
  nOps,       \* number of track-changes calls made so far
  tokens,           \* Parser.tokens: the token array, a repetition held as entry and times
  pos,              \* Parser.pos: index of the current token (0-based)
  formattingStack,  \* Parser.formattingStack
  paragraphState,   \* Parser.paragraphState
  parsedDoc,        \* doc: the RTFDocument parseDocument is building
  frames,           \* the active calls of the parser's methods, innermost last
  status,           \* "idle", "start", "running", "done" or "threw"
  error,            \* the message of the Error thrown, if any
  rtf,         \* the argument of tokenize / parseRTF
  scanPos,     \* Scanner.pos: offset of the current character (0-based)
  tokOut,      \* tokenize's local `tokens`: the tokens pushed so far
  tokStatus,   \* "idle", "start", "scanning", "returned" or "threw"
  tokError,    \* the message of the Error tokenize threw, if any
  changesDoc,     \* the argument of getTrackChanges
  changes,        \* the array getTrackChanges returned
  extractStatus   \* "idle", "called", "returned" or "threw"

tcVars == <<heapDocs, heapParas, call, retDoc, nOps>>

parserVars ==
  <<tokens, pos, formattingStack, paragraphState, parsedDoc, frames, status, error>>

scannerVars == <<rtf, scanPos, tokOut, tokStatus, tokError>>

extractVars == <<changesDoc, changes, extractStatus>>

vars == <<tcVars, parserVars, scannerVars, extractVars>>

\* ------------------------------------------------------------------------
\* Bounds of the track-changes model
\* ------------------------------------------------------------------------
MaxNodes == 3   \* inline nodes (text and revision) in an initial document
MaxParas == 2   \* paragraphs in an initial document
MaxOps == 2     \* track-changes calls in one behaviour

Null == 0       \* the null reference returned by acceptChange/rejectChange

\* ------------------------------------------------------------------------
\* Generic helpers
\* ------------------------------------------------------------------------
HasField(r, f) == f \in DOMAIN r

SetField(r, f, v) == [g \in DOMAIN r \cup {f} |-> IF g = f THEN v ELSE r[g]]

\* r.f = undefined
RemoveField(r, f) == [g \in DOMAIN r \ {f} |-> r[g]]

\* The string with the characters cs.
Str(cs) == [i \in 1..Len(cs) |-> [ch |-> cs[i]]]

\* ------------------------------------------------------------------------
\* The AST of ast-simple.ts
\* ------------------------------------------------------------------------
TextNode(content, formatting) ==
  [type |-> "text", content |-> content, formatting |-> formatting]

RevisionNode(revisionType, content, opt) ==
  [type |-> "revision", revisionType |-> revisionType, content |-> content] @@ opt

ParagraphNode(content, formatting) ==
  [type |-> "paragraph", content |-> content, formatting |-> formatting]

NoFormatting == [f \in {} |-> TRUE]

\* ------------------------------------------------------------------------
\* Track-changes engine: pure helpers (src/unnamed/part_003)
\* ------------------------------------------------------------------------
RECURSIVE extractText(_)
extractText(nodes) ==
  IF nodes = <<>> THEN <<>>
  ELSE LET node == Head(nodes)
       IN (IF node.type = "text" THEN node.content
           ELSE IF node.type = "revision" THEN extractText(node.content)
           ELSE <<>>) \o extractText(Tail(nodes))

\* `change-${n}`
ChangeId(n) == "change-" \o ToString(n)

\* The loop of findRevisionById from (paragraphIndex, inlineIndex) on, with
\* changeIdCounter revisions already counted.  The result is NotFound (the
\* null of the source) or a location record.
NotFound == [found |-> FALSE]

RECURSIVE findRevisionFrom(_, _, _, _, _)
findRevisionFrom(content, changeId, paragraphIndex, inlineIndex, changeIdCounter) ==
  IF paragraphIndex >= Len(content) THEN NotFound
  ELSE LET paragraph == content[paragraphIndex + 1]
       IN IF inlineIndex >= Len(paragraph.content)
          THEN findRevisionFrom(content, changeId, paragraphIndex + 1, 0, changeIdCounter)
          ELSE LET inlineNode == paragraph.content[inlineIndex + 1]
               IN IF inlineNode.type = "revision"
                  THEN IF ChangeId(changeIdCounter) = changeId
                       THEN [found |-> TRUE,
                             paragraphIndex |-> paragraphIndex,
                             inlineIndex |-> inlineIndex,
                             revisionNode |-> inlineNode]
                       ELSE findRevisionFrom(content, changeId, paragraphIndex,
                                             inlineIndex + 1, changeIdCounter + 1)
                  ELSE findRevisionFrom(content, changeId, paragraphIndex,
                                        inlineIndex + 1, changeIdCounter)

\* A lookup that falls back to the first revision when the id matches none.
findRevisionByIdOrFirst(doc, changeId) ==
  LET exact == findRevisionFrom(doc.content, changeId, 0, 0, 0)
  IN IF exact.found THEN exact ELSE findRevisionFrom(doc.content, ChangeId(0), 0, 0, 0)

findRevisionById(doc, changeId) == findRevisionFrom(doc.content, changeId, 0, 0, 0)

RECURSIVE processRevisionFrom(_, _, _, _)
processRevisionFrom(content, inlineIndex, action, i) ==
  IF i >= Len(content) THEN <<>>
  ELSE (IF i = inlineIndex
        THEN (IF action = "unwrap" THEN content[i + 1].content ELSE <<>>)
        ELSE <<content[i + 1]>>)
       \o processRevisionFrom(content, inlineIndex, action, i + 1)

\* A splice that appends the unwrapped children at the end of the paragraph.
processRevisionAppending(content, inlineIndex, action) ==
  processRevisionFrom(content, inlineIndex, "remove", 0)
  \o (IF action = "unwrap" THEN content[inlineIndex + 1].content ELSE <<>>)

processRevisionInParagraph(content, inlineIndex, action) ==
  processRevisionFrom(content, inlineIndex, action, 0)

\* The value updateDocumentMetadata assigns to doc.hasRevisions.
updateDocumentMetadata(doc) ==
  \E p \in 1..Len(doc.content) :
    \E i \in 1..Len(doc.content[p].content) :
      doc.content[p].content[i].type = "revision"

\* The author name getTrackChanges reports for a revision node.  An index
\* below the table length that selects no entry (a negative one) reads
\* `.name` of undefined, which raises a TypeError.
authorIndexOf(revNode) == IF HasField(revNode, "author") THEN revNode.author ELSE 0

authorLookupThrows(doc, revNode) ==
  authorIndexOf(revNode) < Len(doc.revisionTable) /\ authorIndexOf(revNode) < 0

authorNameOf(doc, revNode) ==
  IF authorIndexOf(revNode) < Len(doc.revisionTable) /\ authorIndexOf(revNode) >= 0
  THEN doc.revisionTable[authorIndexOf(revNode) + 1].name
  ELSE Str(<<"U", "n", "k", "n", "o", "w", "n">>)

\* The records getTrackChanges pushes for one paragraph, from inline index i
\* on, with the running characterOffset and changeIdCounter.
RECURSIVE paragraphChanges(_, _, _, _, _, _)
paragraphChanges(doc, paragraphIndex, content, i, characterOffset, changeIdCounter) ==
  IF i > Len(content) THEN <<>>
  ELSE LET inlineNode == content[i]
       IN IF inlineNode.type = "revision"
          THEN LET text == extractText(inlineNode.content)
                   base == [id |-> ChangeId(changeIdCounter),
                            type |-> inlineNode.revisionType,
                            author |-> authorNameOf(doc, inlineNode),
                            authorIndex |-> authorIndexOf(inlineNode),
                            text |-> text,
                            position |-> [paragraphIndex |-> paragraphIndex,
                                          characterOffset |-> characterOffset]]
                   rec == IF HasField(inlineNode, "timestamp")
                          THEN SetField(base, "timestamp", inlineNode.timestamp * 60000)
                          ELSE base
               IN <<rec>> \o paragraphChanges(doc, paragraphIndex, content, i + 1,
                                              characterOffset + Len(text),
                                              changeIdCounter + 1)
          ELSE paragraphChanges(doc, paragraphIndex, content, i + 1,
                                characterOffset + Len(inlineNode.content),
                                changeIdCounter)

RevisionCount(content) ==
  Cardinality({i \in 1..Len(content) : content[i].type = "revision"})

\* documentChanges with changeIdCounter declared inside the loop over the
\* paragraphs, so that it starts from 0 in each.
RECURSIVE documentChangesPerParagraph(_, _, _)
documentChangesPerParagraph(doc, paragraphIndex, changeIdCounter) ==
  IF paragraphIndex >= Len(doc.content) THEN <<>>
  ELSE LET paragraph == doc.content[paragraphIndex + 1]
       IN paragraphChanges(doc, paragraphIndex, paragraph.content, 1, 0, 0)
          \o documentChangesPerParagraph(doc, paragraphIndex + 1, 0)

RECURSIVE documentChanges(_, _, _)
documentChanges(doc, paragraphIndex, changeIdCounter) ==
  IF paragraphIndex >= Len(doc.content) THEN <<>>
  ELSE LET paragraph == doc.content[paragraphIndex + 1]
       IN paragraphChanges(doc, paragraphIndex, paragraph.content, 1, 0, changeIdCounter)
          \o documentChanges(doc, paragraphIndex + 1,
                             changeIdCounter + RevisionCount(paragraph.content))

getTrackChanges(doc) == documentChanges(doc, 0, 0)

\* The new content acceptAllChanges / rejectAllChanges build for a paragraph;
\* removed is the revision type whose nodes are dropped.
RECURSIVE resolveAll(_, _)
resolveAll(content, removed) ==
  IF content = <<>> THEN <<>>
  ELSE LET inlineNode == Head(content)
       IN (IF inlineNode.type = "revision"
           THEN (IF inlineNode.revisionType = removed THEN <<>> ELSE inlineNode.content)
           ELSE <<inlineNode>>)
          \o resolveAll(Tail(content), removed)

\* ------------------------------------------------------------------------
\* The heap: documents hold references to paragraph objects
\* ------------------------------------------------------------------------
\* The document a reference denotes, with its paragraphs dereferenced.
Deref(hd, hp, ref) ==
  [hd[ref] EXCEPT !.content = [i \in 1..Len(hd[ref].content) |-> hp[hd[ref].content[i]]]]

DocAt(ref) == Deref(heapDocs, heapParas, ref)

\* A shallow copy: a new document object that shares the paragraph objects.
cloneDocumentShallow(hd, hp, ref) ==
  [docs |-> Append(hd, hd[ref]), paras |-> hp, ref |-> Len(hd) + 1]

\* JSON.parse(JSON.stringify(doc)): a new document object whose paragraphs
\* are new objects with the same values.  Undefined properties are dropped
\* by JSON.stringify, which leaves an absent field absent.
cloneDocument(hd, hp, ref) ==
  LET n == Len(hd[ref].content)
      newParas == [i \in 1..n |-> hp[hd[ref].content[i]]]
      newDoc == [hd[ref] EXCEPT !.content = [i \in 1..n |-> Len(hp) + i]]
  IN [docs |-> Append(hd, newDoc), paras |-> hp \o newParas, ref |-> Len(hd) + 1]

\* ------------------------------------------------------------------------
\* Track-changes engine: the exported operations on the heap
\* ------------------------------------------------------------------------
\* resolveChange dropping from content a paragraph the change left empty.
resolveChangePruning(hd, hp, ref, changeId, removed) ==
  LET location == findRevisionById(Deref(hd, hp, ref), changeId)
  IN IF ~location.found
     THEN [docs |-> hd, paras |-> hp, ref |-> Null]
     ELSE LET c == cloneDocument(hd, hp, ref)
              paragraphRef == c.docs[c.ref].content[location.paragraphIndex + 1]
              paragraph == c.paras[paragraphRef]
              revisionNode == paragraph.content[location.inlineIndex + 1]
              action == IF revisionNode.revisionType = removed THEN "remove" ELSE "unwrap"
              newContent == processRevisionInParagraph(paragraph.content,
                                                       location.inlineIndex, action)
              paras2 == [c.paras EXCEPT ![paragraphRef].content = newContent]
              kept == IF newContent # <<>> THEN c.docs[c.ref].content
                      ELSE SubSeq(c.docs[c.ref].content, 1, location.paragraphIndex)
                           \o SubSeq(c.docs[c.ref].content, location.paragraphIndex + 2,
                                     Len(c.docs[c.ref].content))
              docs1 == [c.docs EXCEPT ![c.ref].content = kept]
              docs2 == [docs1 EXCEPT ![c.ref] =
                          SetField(@, "hasRevisions",
                                   updateDocumentMetadata(Deref(docs1, paras2, c.ref)))]
          IN [docs |-> docs2, paras |-> paras2, ref |-> c.ref]

\* acceptChange and rejectChange differ only in the revision type whose node
\* is removed instead of unwrapped: 'deletion' for accept, 'insertion' for
\* reject.  The result is the heap after the call and the returned reference.
resolveChange(hd, hp, ref, changeId, removed) ==
  LET location == findRevisionById(Deref(hd, hp, ref), changeId)
  IN IF ~location.found
     THEN [docs |-> hd, paras |-> hp, ref |-> Null]
     ELSE LET c == cloneDocument(hd, hp, ref)
              paragraphRef == c.docs[c.ref].content[location.paragraphIndex + 1]
              paragraph == c.paras[paragraphRef]
              revisionNode == paragraph.content[location.inlineIndex + 1]
              action == IF revisionNode.revisionType = removed THEN "remove" ELSE "unwrap"
              paras2 == [c.paras EXCEPT ![paragraphRef].content =
                           processRevisionInParagraph(paragraph.content,
                                                      location.inlineIndex, action)]
              docs2 == [c.docs EXCEPT ![c.ref] =
                          SetField(@, "hasRevisions",
                                   updateDocumentMetadata(Deref(c.docs, paras2, c.ref)))]
          IN [docs |-> docs2, paras |-> paras2, ref |-> c.ref]

\* An accept that applies the rule of reject.
acceptChangeInverted(hd, hp, ref, changeId) == resolveChange(hd, hp, ref, changeId, "insertion")

acceptChange(hd, hp, ref, changeId) == resolveChange(hd, hp, ref, changeId, "deletion")

rejectChange(hd, hp, ref, changeId) == resolveChange(hd, hp, ref, changeId, "insertion")

\* acceptAllChanges and rejectAllChanges: every paragraph of the clone gets a
\* new content array and hasRevisions is set to false.
resolveAllChanges(hd, hp, ref, removed) ==
  LET c == cloneDocument(hd, hp, ref)
      mine == {c.docs[c.ref].content[i] : i \in 1..Len(c.docs[c.ref].content)}
      paras2 == [r \in 1..Len(c.paras) |->
                   IF r \in mine
                   THEN [c.paras[r] EXCEPT !.content = resolveAll(@, removed)]
                   ELSE c.paras[r]]
      docs2 == [c.docs EXCEPT ![c.ref] = SetField(@, "hasRevisions", FALSE)]
  IN [docs |-> docs2, paras |-> paras2, ref |-> c.ref]

acceptAllChanges(hd, hp, ref) == resolveAllChanges(hd, hp, ref, "deletion")

rejectAllChanges(hd, hp, ref) == resolveAllChanges(hd, hp, ref, "insertion")

\* ------------------------------------------------------------------------
\* Initial documents of the track-changes model: the documents of the data
\* model with at most MaxParas paragraphs and MaxNodes inline nodes
\* ------------------------------------------------------------------------
Bold == [bold |-> TRUE]

TextNodes == {TextNode(Str(<<"a">>), NoFormatting), TextNode(Str(<<"b">>), Bold)}

\* Revision type with the optional author and timestamp of the node.
RevisionKinds ==
  {<<"insertion", [author |-> 1, timestamp |-> 2]>>, <<"deletion", NoFormatting>>}

RECURSIVE InlineOfSize(_), InlineSeqOfSize(_)
\* Inline nodes that are trees of exactly k nodes; a revision's content may
\* hold revisions.
InlineOfSize(k) ==
  (IF k = 1 THEN TextNodes ELSE {}) \cup
  {RevisionNode(rk[1], c, rk[2]) : rk \in RevisionKinds, c \in InlineSeqOfSize(k - 1)}

\* Sequences of inline nodes with exactly n nodes in all.
InlineSeqOfSize(n) ==
  IF n = 0 THEN {<<>>}
  ELSE UNION {{<<t>> \o r : t \in InlineOfSize(k), r \in InlineSeqOfSize(n - k)} : k \in 1..n}

\* Sequences of at most m paragraphs with exactly n inline nodes in all.
RECURSIVE ParagraphSeqs(_, _)
ParagraphSeqs(m, n) ==
  (IF n = 0 THEN {<<>>} ELSE {}) \cup
  (IF m = 0 THEN {}
   ELSE UNION {{<<ParagraphNode(c, NoFormatting)>> \o r :
                  c \in InlineSeqOfSize(k), r \in ParagraphSeqs(m - 1, n - k)} : k \in 0..n})

RevisionTable ==
  <<[index |-> 0, name |-> Str(<<"U", "n", "k", "n", "o", "w", "n">>)],
    [index |-> 1, name |-> Str(<<"J", "o", "h", "n">>)]>>

\* A document as parseDocument builds it around the given paragraphs:
\* hasRevisions is true when a revision was pushed and undefined otherwise.
DocumentOf(paragraphs) ==
  LET doc == [type |-> "document", rtfVersion |-> 1, charset |-> "ansi",
              fontTable |-> <<>>, colorTable |-> <<>>, stylesheetTable |-> <<>>,
              revisionTable |-> RevisionTable, content |-> paragraphs]
  IN IF updateDocumentMetadata(doc) THEN SetField(doc, "hasRevisions", TRUE) ELSE doc

DataModelDocs == {DocumentOf(ps) : ps \in UNION {ParagraphSeqs(MaxParas, n) : n \in 0..MaxNodes}}

\* No parse is in progress.
ParserIdle ==
  /\ tokens = [head |-> <<>>, entry |-> <<>>, times |-> 0, tail |-> <<>>]
  /\ pos = 0
  /\ formattingStack = <<NoFormatting>>
  /\ paragraphState = NoFormatting
  /\ parsedDoc = [type |-> "none"]
  /\ frames = <<>>
  /\ status = "idle"
  /\ error = ""

\* No getTrackChanges call is in progress.
ExtractIdle ==
  /\ changesDoc = [type |-> "none"]
  /\ changes = <<>>
  /\ extractStatus = "idle"

\* No tokenize call is in progress.
TokenizerIdle ==
  /\ rtf = [type |-> "undefined"]
  /\ scanPos = 0
  /\ tokOut = <<>>
  /\ tokStatus = "idle"
  /\ tokError = ""

NoCall == [op |-> "none", arg |-> Null, changeId |-> "", before |-> [type |-> "none"]]

InitTC ==
  /\ \E d \in DataModelDocs :
       /\ heapParas = d.content
       /\ heapDocs = <<[d EXCEPT !.content = [i \in 1..Len(d.content) |-> i]]>>
  /\ call = NoCall
  /\ retDoc = Null
  /\ nOps = 0
  /\ ParserIdle
  /\ TokenizerIdle
  /\ ExtractIdle

\* The ids a caller passes: the id of every change of the document, the
\* first id past them (stale after an earlier accept or reject), and a
\* string that is no id.
ChangeIdsFor(doc) ==
  {ChangeId(k) : k \in 0..Len(getTrackChanges(doc))} \cup {"invalid-id"}

Returns(r, op, ref, changeId) ==
  /\ heapDocs' = r.docs
  /\ heapParas' = r.paras
  /\ retDoc' = r.ref
  /\ call' = [op |-> op, arg |-> ref, changeId |-> changeId, before |-> DocAt(ref)]
  /\ nOps' = nOps + 1
  /\ UNCHANGED <<parserVars, scannerVars, extractVars>>

AcceptChange ==
  /\ nOps < MaxOps
  /\ \E ref \in DOMAIN heapDocs : \E changeId \in ChangeIdsFor(DocAt(ref)) :
       Returns(acceptChange(heapDocs, heapParas, ref, changeId), "acceptChange", ref, changeId)

RejectChange ==
  /\ nOps < MaxOps
  /\ \E ref \in DOMAIN heapDocs : \E changeId \in ChangeIdsFor(DocAt(ref)) :
       Returns(rejectChange(heapDocs, heapParas, ref, changeId), "rejectChange", ref, changeId)

AcceptAllChanges ==
  /\ nOps < MaxOps
  /\ \E ref \in DOMAIN heapDocs :
       Returns(acceptAllChanges(heapDocs, heapParas, ref), "acceptAllChanges", ref, "")

RejectAllChanges ==
  /\ nOps < MaxOps
  /\ \E ref \in DOMAIN heapDocs :
       Returns(rejectAllChanges(heapDocs, heapParas, ref), "rejectAllChanges", ref, "")

NextTC ==
  \/ AcceptChange
  \/ RejectChange
  \/ AcceptAllChanges
  \/ RejectAllChanges

SpecTC == InitTC /\ [][NextTC]_vars

\* ------------------------------------------------------------------------
\* Tokens (src/src/parser/tokenizer.ts, interface Token).  A control word
\* whose param is null has no param field.
\* ------------------------------------------------------------------------
GroupStart == [type |-> "groupStart"]

GroupEnd == [type |-> "groupEnd"]

ControlWord(name) == [type |-> "controlWord", name |-> name]

ControlWordParam(name, param) == [type |-> "controlWord", name |-> name, param |-> param]

Text(cs) == [type |-> "text", value |-> Str(cs)]

\* ------------------------------------------------------------------------
\* Parser: cursor and formatting helpers (src/src/parser/parser.ts)
\* ------------------------------------------------------------------------
\* The token array of the token sequence ts.
Array(ts) == [head |-> ts, entry |-> <<>>, times |-> 0, tail |-> <<>>]

\* this.tokens.length
TokenCount == Len(tokens.head) + tokens.times * Len(tokens.entry) + Len(tokens.tail)

\* this.tokens[i - 1]
TokenAt(i) ==
  LET h == Len(tokens.head)
      r == tokens.times * Len(tokens.entry)
  IN IF i <= h THEN tokens.head[i]
     ELSE IF i <= h + r THEN tokens.entry[((i - h - 1) % Len(tokens.entry)) + 1]
     ELSE tokens.tail[i - h - r]

\* this.tokens as a sequence.
TokenArray == [i \in 1..TokenCount |-> TokenAt(i)]

isEOF == pos >= TokenCount

peek == TokenAt(pos + 1)

match(type) == ~isEOF /\ peek.type = type

\* The parser's state as one record, the value the step operators transform.
Current ==
  [pos |-> pos, formattingStack |-> formattingStack, paragraphState |-> paragraphState,
   doc |-> parsedDoc, frames |-> frames, status |-> status, error |-> error]

\* expect(type) on a token of another type or at the end of the tokens:
\* advance() has moved pos and the Error propagates out of parseRTF.
expectThrows(s, type) ==
  [s EXCEPT !.pos = pos + 1,
            !.status = "threw",
            !.error = "Expected " \o type \o " but got " \o (IF isEOF THEN "EOF" ELSE peek.type)]

getCurrentFormatting(stack) == stack[Len(stack)]

pushFormatting(stack) == Append(stack, getCurrentFormatting(stack))

\* popFormatting that leaves the entry of the group on the stack.
popFormattingKeeping(stack) == stack

popFormatting(stack) == IF Len(stack) > 1 THEN SubSeq(stack, 1, Len(stack) - 1) ELSE stack

isHeaderControlWord(name) == name \in {"rtf", "ansi", "mac", "pc", "pca", "deff"}

isFormattingControlWord(name) ==
  name \in {"b", "i", "ul", "fs", "f", "cf", "cb", "strike", "scaps", "sub", "super"}

isParagraphControlWord(name) ==
  name \in {"qc", "qr", "ql", "qj", "sb", "sa", "li", "ri", "fi"}

\* r.f = param !== null ? param : undefined
AssignParam(r, f, token) ==
  IF HasField(token, "param") THEN SetField(r, f, token.param) ELSE RemoveField(r, f)

\* r.f = param === null || param !== 0
AssignFlag(r, f, token) ==
  SetField(r, f, ~HasField(token, "param") \/ token.param # 0)

\* The document after parseHeaderControlWord consumed the token.
parseHeaderControlWord(d, token) ==
  CASE token.name = "rtf" ->
         IF HasField(token, "param") THEN [d EXCEPT !.rtfVersion = token.param] ELSE d
    [] token.name \in {"ansi", "mac", "pc", "pca"} -> [d EXCEPT !.charset = token.name]
    [] token.name = "deff" ->
         IF HasField(token, "param") THEN SetField(d, "defaultFont", token.param) ELSE d
    [] OTHER -> d

\* The top formatting state after parseFormattingControlWord consumed the
\* token.
parseFormattingControlWord(current, token) ==
  CASE token.name = "b" -> AssignFlag(current, "bold", token)
    [] token.name = "i" -> AssignFlag(current, "italic", token)
    [] token.name = "ul" -> AssignFlag(current, "underline", token)
    [] token.name = "fs" -> AssignParam(current, "fontSize", token)
    [] token.name = "f" -> AssignParam(current, "font", token)
    [] token.name = "cf" -> AssignParam(current, "foregroundColor", token)
    [] token.name = "cb" -> AssignParam(current, "backgroundColor", token)
    [] OTHER -> current

\* The formatting stack after parseFormattingControlWord.
formatTop(stack, token) ==
  [stack EXCEPT ![Len(stack)] = parseFormattingControlWord(@, token)]

\* The paragraph state after parseParagraphControlWord consumed the token.
parseParagraphControlWord(state, token) ==
  CASE token.name = "qc" -> SetField(state, "alignment", "center")
    [] token.name = "qr" -> SetField(state, "alignment", "right")
    [] token.name = "ql" -> SetField(state, "alignment", "left")
    [] token.name = "qj" -> SetField(state, "alignment", "justify")
    [] token.name = "sb" -> AssignParam(state, "spaceBefore", token)
    [] token.name = "sa" -> AssignParam(state, "spaceAfter", token)
    [] token.name = "li" -> AssignParam(state, "leftIndent", token)
    [] token.name = "ri" -> AssignParam(state, "rightIndent", token)
    [] token.name = "fi" -> AssignParam(state, "firstLineIndent", token)
    [] OTHER -> state

\* createParagraph over text nodes that hold a live reference to one
\* formatting object: every text node shows the formatting of the last.
createParagraphLive(content, state) ==
  ParagraphNode([i \in 1..Len(content) |->
                   IF content[i].type = "text" /\ content[Len(content)].type = "text"
                   THEN [content[i] EXCEPT !.formatting = content[Len(content)].formatting]
                   ELSE content[i]],
    [f \in DOMAIN state \cap {"alignment", "spaceBefore", "spaceAfter", "leftIndent",
                              "rightIndent", "firstLineIndent"} |-> state[f]])

createParagraph(content, state) ==
  ParagraphNode(content,
    [f \in DOMAIN state \cap {"alignment", "spaceBefore", "spaceAfter", "leftIndent",
                              "rightIndent", "firstLineIndent"} |-> state[f]])

\* The snapshot createTextNode takes of the current formatting: a flag is
\* copied when it is true, a number when it is defined.
createTextNode(text, stack) ==
  LET current == getCurrentFormatting(stack)
      flags == {f \in DOMAIN current \cap {"bold", "italic", "underline"} : current[f]}
      numbers == DOMAIN current \cap {"fontSize", "font", "foregroundColor", "backgroundColor"}
  IN TextNode(text, [f \in flags \cup numbers |-> current[f]])

\* parseDocument's document literal.
NewDocument ==
  [type |-> "document", rtfVersion |-> 1, charset |-> "ansi", fontTable |-> <<>>,
   colorTable |-> <<>>, stylesheetTable |-> <<>>, revisionTable |-> <<>>, content |-> <<>>]

\* ------------------------------------------------------------------------
\* Parser: strings
\* ------------------------------------------------------------------------
IsSpace(c) == c.ch \in {" ", "\t", "\n", "\r"}

RECURSIVE trimStart(_)
trimStart(str) ==
  IF str # <<>> /\ IsSpace(Head(str)) THEN trimStart(Tail(str)) ELSE str

RECURSIVE trimEnd(_)
trimEnd(str) ==
  IF str # <<>> /\ IsSpace(str[Len(str)]) THEN trimEnd(SubSeq(str, 1, Len(str) - 1)) ELSE str

\* name.replace(/;$/, '').trim()
cleanName(str) ==
  trimEnd(trimStart(IF str # <<>> /\ str[Len(str)].ch = ";"
                    THEN SubSeq(str, 1, Len(str) - 1) ELSE str))

\* name.substring(1) for the control words beginning with 'f' and longer
\* than one letter that the inputs of the model use.
FontFamilyOf ==
  [fnil |-> "nil", froman |-> "roman", fswiss |-> "swiss", fmodern |-> "modern",
   fs |-> "s", fi |-> "i", fonttbl |-> "onttbl", fcharset |-> "charset"]

\* ------------------------------------------------------------------------
\* Parser: the methods, one step per loop iteration.  A frame records an
\* active call and its local variables.
\* ------------------------------------------------------------------------
Top == frames[Len(frames)]

Caller == frames[Len(frames) - 1]

\* The frames with the innermost call's locals replaced.
WithTop(f) == [frames EXCEPT ![Len(frames)] = f]

\* The frames after the innermost call returned and its caller's locals
\* became f.
ReturnTo(f) == [SubSeq(frames, 1, Len(frames) - 1) EXCEPT ![Len(frames) - 1] = f]

DocumentContentFrame ==
  [fn |-> "parseDocumentContent", currentParagraph |-> <<>>, savedParaState |-> NoFormatting]

ContentGroupFrame == [fn |-> "parseContentGroup", nodes |-> <<>>]

RevisionGroupFrame(name) ==
  [fn |-> "parseRevisionGroup", revisionType |-> name, meta |-> NoFormatting,
   revContent |-> <<>>]

FontTableFrame == [fn |-> "parseFontTable"]

FontDescriptorFrame == [fn |-> "parseFontDescriptor", font |-> NoFormatting, fontName |-> <<>>]

ColorTableFrame == [fn |-> "parseColorTable", currentColor |-> NoFormatting]

RevisionTableFrame == [fn |-> "parseRevisionTable", authorIndex |-> 0]

RevisionAuthorFrame == [fn |-> "parseRevisionTable.author", authorName |-> <<>>]

SkipGroupFrame == [fn |-> "skipGroup", depth |-> 1]

\* pos after `if (!this.isEOF() && this.match('groupEnd')) this.advance()`
afterGroupEnd == IF match("groupEnd") THEN pos + 1 ELSE pos

\* parseDocument without its expect('groupStart').
parseDocumentUnchecked ==
  [Current EXCEPT !.pos = IF isEOF THEN pos ELSE pos + 1, !.doc = NewDocument,
                  !.frames = <<DocumentContentFrame>>, !.status = "running"]

\* parseDocument: expect the opening brace, create the document and enter
\* parseDocumentContent.
parseDocumentStart ==
  IF match("groupStart")
  THEN [Current EXCEPT !.pos = pos + 1, !.doc = NewDocument,
                       !.frames = <<DocumentContentFrame>>, !.status = "running"]
  ELSE expectThrows(Current, "groupStart")

\* parseDocumentContent at a groupStart: consume it and classify the group
\* by the token after it.
dispatchGroup ==
  LET hasNext == pos + 1 < TokenCount
      nextToken == TokenAt(pos + 2)
      hasDest == pos + 2 < TokenCount
      destToken == TokenAt(pos + 3)
  IN IF hasNext /\ nextToken.type = "text" /\ nextToken.value = Str(<<"*">>)
     THEN IF hasDest /\ destToken.type = "controlWord" /\ destToken.name = "revtbl"
          THEN [Current EXCEPT !.pos = pos + 3, !.frames = Append(frames, RevisionTableFrame)]
          ELSE [Current EXCEPT !.pos = pos + 2, !.frames = Append(frames, SkipGroupFrame)]
     ELSE IF hasNext /\ nextToken.type = "controlWord" /\ nextToken.name = "fonttbl"
     THEN [Current EXCEPT !.pos = pos + 2, !.frames = Append(frames, FontTableFrame)]
     ELSE IF hasNext /\ nextToken.type = "controlWord" /\ nextToken.name = "colortbl"
     THEN [Current EXCEPT !.pos = pos + 2,
                          !.doc.colorTable = Append(@, [r |-> 0, g |-> 0, b |-> 0]),
                          !.frames = Append(frames, ColorTableFrame)]
     ELSE IF hasNext /\ nextToken.type = "controlWord"
             /\ nextToken.name \in {"revised", "deleted"}
     THEN [Current EXCEPT !.pos = pos + 2,
                          !.frames = Append(frames, RevisionGroupFrame(nextToken.name))]
     ELSE [Current EXCEPT !.pos = pos + 1,
                          !.formattingStack = pushFormatting(formattingStack),
                          !.frames = Append(WithTop([Top EXCEPT !.savedParaState = paragraphState]),
                                            ContentGroupFrame)]

\* One iteration of the loop of parseDocumentContent; when the loop ends,
\* the final flush and the rest of parseDocument.
parseDocumentContentStep ==
  LET token == peek
      flushed == Append(parsedDoc.content, createParagraph(Top.currentParagraph, paragraphState))
  IN IF isEOF \/ match("groupEnd")
     THEN [Current EXCEPT !.doc.content = IF Top.currentParagraph # <<>> THEN flushed ELSE @,
                          !.pos = IF isEOF THEN pos ELSE pos + 1,
                          !.frames = <<>>,
                          !.status = "done"]
     ELSE IF token.type = "controlWord"
     THEN IF token.name \in {"par", "line"}
          THEN IF Top.currentParagraph # <<>> \/ token.name = "par"
               THEN [Current EXCEPT !.pos = pos + 1,
                                    !.doc.content = flushed,
                                    !.frames = WithTop([Top EXCEPT !.currentParagraph = <<>>]),
                                    !.paragraphState = NoFormatting]
               ELSE [Current EXCEPT !.pos = pos + 1]
          ELSE IF isHeaderControlWord(token.name)
          THEN [Current EXCEPT !.pos = pos + 1, !.doc = parseHeaderControlWord(@, token)]
          ELSE IF isFormattingControlWord(token.name)
          THEN [Current EXCEPT !.pos = pos + 1,
                               !.formattingStack = formatTop(formattingStack, token)]
          ELSE IF isParagraphControlWord(token.name)
          THEN [Current EXCEPT !.pos = pos + 1,
                               !.paragraphState = parseParagraphControlWord(@, token)]
          ELSE [Current EXCEPT !.pos = pos + 1]
     ELSE IF token.type = "groupStart" THEN dispatchGroup
     ELSE IF token.type = "text"
     THEN [Current EXCEPT !.pos = pos + 1,
                          !.frames = WithTop([Top EXCEPT !.currentParagraph =
                                        Append(@, createTextNode(token.value, formattingStack))])]
     ELSE [Current EXCEPT !.pos = pos + 1]

\* The caller's locals after the nodes of a content group were pushed to
\* its list of inline nodes.
pushNodes(f, nodes) ==
  CASE f.fn = "parseDocumentContent" -> [f EXCEPT !.currentParagraph = @ \o nodes]
    [] f.fn = "parseContentGroup" -> [f EXCEPT !.nodes = @ \o nodes]
    [] f.fn = "parseRevisionGroup" -> [f EXCEPT !.revContent = @ \o nodes]

\* One iteration of the loop of parseContentGroup; when the loop ends, the
\* return and the caller's statements after the call: push the nodes, pop
\* the formatting, restore the paragraph state (parseDocumentContent only)
\* and consume the closing brace.
parseContentGroupStep ==
  LET token == peek
  IN IF isEOF \/ match("groupEnd")
     THEN [Current EXCEPT !.pos = afterGroupEnd,
                          !.formattingStack = popFormatting(formattingStack),
                          !.paragraphState = IF Caller.fn = "parseDocumentContent"
                                             THEN Caller.savedParaState ELSE @,
                          !.frames = ReturnTo(pushNodes(Caller, Top.nodes))]
     ELSE IF token.type = "controlWord" /\ isFormattingControlWord(token.name)
     THEN [Current EXCEPT !.pos = pos + 1,
                          !.formattingStack = formatTop(formattingStack, token)]
     ELSE IF token.type = "groupStart"
     THEN [Current EXCEPT !.pos = pos + 1,
                          !.formattingStack = pushFormatting(formattingStack),
                          !.frames = Append(frames, ContentGroupFrame)]
     ELSE IF token.type = "text"
     THEN [Current EXCEPT !.pos = pos + 1,
                          !.frames = WithTop([Top EXCEPT !.nodes =
                                        Append(@, createTextNode(token.value, formattingStack))])]
     ELSE [Current EXCEPT !.pos = pos + 1]

\* One iteration of the loop of parseRevisionGroup; when the loop ends, the
\* return of the node and parseDocumentContent's statements after the call.
parseRevisionGroupStep ==
  LET token == peek
      node == RevisionNode(IF Top.revisionType = "revised" THEN "insertion" ELSE "deletion",
                           Top.revContent, Top.meta)
  IN IF isEOF \/ match("groupEnd")
     THEN [Current EXCEPT !.pos = afterGroupEnd,
                          !.doc = SetField(@, "hasRevisions", TRUE),
                          !.frames = ReturnTo([Caller EXCEPT !.currentParagraph = Append(@, node)])]
     ELSE IF token.type = "controlWord"
     THEN IF token.name = "revauth" /\ HasField(token, "param")
          THEN [Current EXCEPT !.pos = pos + 1,
                               !.frames = WithTop([Top EXCEPT !.meta =
                                             SetField(@, "author", token.param)])]
          ELSE IF token.name = "revdttm" /\ HasField(token, "param")
          THEN [Current EXCEPT !.pos = pos + 1,
                               !.frames = WithTop([Top EXCEPT !.meta =
                                             SetField(@, "timestamp", token.param)])]
          ELSE IF isFormattingControlWord(token.name)
          THEN [Current EXCEPT !.pos = pos + 1,
                               !.formattingStack = formatTop(formattingStack, token)]
          ELSE [Current EXCEPT !.pos = pos + 1]
     ELSE IF token.type = "groupStart"
     THEN [Current EXCEPT !.pos = pos + 1,
                          !.formattingStack = pushFormatting(formattingStack),
                          !.frames = Append(frames, ContentGroupFrame)]
     ELSE IF token.type = "text"
     THEN [Current EXCEPT !.pos = pos + 1,
                          !.frames = WithTop([Top EXCEPT !.revContent =
                                        Append(@, createTextNode(token.value, formattingStack))])]
     ELSE [Current EXCEPT !.pos = pos + 1]

\* The frames after the innermost call returned to a caller whose locals
\* are unchanged.
Return == SubSeq(frames, 1, Len(frames) - 1)

\* One iteration of the loop of parseFontTable, or the expect('groupEnd')
\* after it.
parseFontTableStep ==
  IF isEOF THEN expectThrows(Current, "groupEnd")
  ELSE IF match("groupEnd") THEN [Current EXCEPT !.pos = pos + 1, !.frames = Return]
  ELSE IF match("groupStart")
  THEN [Current EXCEPT !.pos = pos + 1, !.frames = Append(frames, FontDescriptorFrame)]
  ELSE [Current EXCEPT !.pos = pos + 1]

\* The FontDescriptor parseFontDescriptor returns.
fontDescriptor(font, fontName) ==
  [index |-> font.index, name |-> fontName]
  @@ (IF HasField(font, "family") THEN [family |-> font.family] ELSE NoFormatting)

\* One iteration of the loop of parseFontDescriptor, or the statements after
\* it and parseFontTable's push of the descriptor.
parseFontDescriptorStep ==
  LET token == peek
      fontName == cleanName(Top.fontName)
  IN IF isEOF THEN expectThrows(Current, "groupEnd")
     ELSE IF match("groupEnd")
     THEN [Current EXCEPT !.pos = pos + 1,
                          !.doc.fontTable = IF HasField(Top.font, "index") /\ fontName # <<>>
                                            THEN Append(@, fontDescriptor(Top.font, fontName))
                                            ELSE @,
                          !.frames = Return]
     ELSE IF token.type = "controlWord"
     THEN IF token.name = "f" /\ HasField(token, "param")
          THEN [Current EXCEPT !.pos = pos + 1,
                               !.frames = WithTop([Top EXCEPT !.font =
                                             SetField(@, "index", token.param)])]
          ELSE IF token.name \in DOMAIN FontFamilyOf
          THEN [Current EXCEPT !.pos = pos + 1,
                               !.frames = WithTop([Top EXCEPT !.font =
                                             SetField(@, "family", FontFamilyOf[token.name])])]
          ELSE [Current EXCEPT !.pos = pos + 1]
     ELSE IF token.type = "text"
     THEN [Current EXCEPT !.pos = pos + 1,
                          !.frames = WithTop([Top EXCEPT !.fontName = @ \o token.value])]
     ELSE [Current EXCEPT !.pos = pos + 1]

\* One iteration of the loop of parseColorTable, or the expect('groupEnd')
\* after it.
parseColorTableStep ==
  LET token == peek
      currentColor == Top.currentColor
  IN IF isEOF THEN expectThrows(Current, "groupEnd")
     ELSE IF match("groupEnd") THEN [Current EXCEPT !.pos = pos + 1, !.frames = Return]
     ELSE IF token.type = "controlWord"
     THEN IF token.name = "red" /\ HasField(token, "param")
          THEN [Current EXCEPT !.pos = pos + 1,
                               !.frames = WithTop([Top EXCEPT !.currentColor =
                                             SetField(@, "r", token.param)])]
          ELSE IF token.name = "green" /\ HasField(token, "param")
          THEN [Current EXCEPT !.pos = pos + 1,
                               !.frames = WithTop([Top EXCEPT !.currentColor =
                                             SetField(@, "g", token.param)])]
          ELSE IF token.name = "blue" /\ HasField(token, "param")
          THEN [Current EXCEPT !.pos = pos + 1,
                               !.frames = WithTop([Top EXCEPT !.currentColor =
                                             SetField(@, "b", token.param)])]
          ELSE [Current EXCEPT !.pos = pos + 1]
     ELSE IF token.type = "text" /\ token.value = Str(<<";">>)
     THEN [Current EXCEPT !.pos = pos + 1,
                          !.doc.colorTable = IF DOMAIN currentColor = {"r", "g", "b"}
                                             THEN Append(@, currentColor) ELSE @,
                          !.frames = WithTop([Top EXCEPT !.currentColor = NoFormatting])]
     ELSE [Current EXCEPT !.pos = pos + 1]

\* One iteration of the outer loop of parseRevisionTable, or the
\* expect('groupEnd') after it.
parseRevisionTableStep ==
  IF isEOF THEN expectThrows(Current, "groupEnd")
  ELSE IF match("groupEnd") THEN [Current EXCEPT !.pos = pos + 1, !.frames = Return]
  ELSE IF match("groupStart")
  THEN [Current EXCEPT !.pos = pos + 1, !.frames = Append(frames, RevisionAuthorFrame)]
  ELSE [Current EXCEPT !.pos = pos + 1]

\* One iteration of the inner loop of parseRevisionTable, which collects an
\* author name, or the statements after it.
parseRevisionAuthorStep ==
  LET token == peek
      authorName == cleanName(Top.authorName)
  IN IF isEOF THEN expectThrows(Current, "groupEnd")
     ELSE IF match("groupEnd")
     THEN IF authorName # <<>>
          THEN [Current EXCEPT !.pos = pos + 1,
                               !.doc.revisionTable =
                                  Append(@, [index |-> Caller.authorIndex, name |-> authorName]),
                               !.frames = ReturnTo([Caller EXCEPT !.authorIndex = @ + 1])]
          ELSE [Current EXCEPT !.pos = pos + 1, !.frames = Return]
     ELSE IF token.type = "text"
     THEN [Current EXCEPT !.pos = pos + 1,
                          !.frames = WithTop([Top EXCEPT !.authorName = @ \o token.value])]
     ELSE [Current EXCEPT !.pos = pos + 1]

\* skipGroup reading a text token with peek(), without advance().
skipGroupStepPeeking ==
  LET token == peek
  IN IF isEOF \/ Top.depth <= 0 THEN [Current EXCEPT !.frames = Return]
     ELSE IF token.type = "text" THEN Current
     ELSE [Current EXCEPT !.pos = pos + 1,
                          !.frames = WithTop([Top EXCEPT !.depth =
                                        IF token.type = "groupStart" THEN @ + 1
                                        ELSE IF token.type = "groupEnd" THEN @ - 1
                                        ELSE @])]

\* The loop test of skipGroup and, when it passes, one iteration.
skipGroupStep ==
  LET token == peek
  IN IF isEOF \/ Top.depth <= 0 THEN [Current EXCEPT !.frames = Return]
     ELSE [Current EXCEPT !.pos = pos + 1,
                          !.frames = WithTop([Top EXCEPT !.depth =
                                        IF token.type = "groupStart" THEN @ + 1
                                        ELSE IF token.type = "groupEnd" THEN @ - 1
                                        ELSE @])]

\* ------------------------------------------------------------------------
\* Parser: actions
\* ------------------------------------------------------------------------
Become(s) ==
  /\ pos' = s.pos
  /\ formattingStack' = s.formattingStack
  /\ paragraphState' = s.paragraphState
  /\ parsedDoc' = s.doc
  /\ frames' = s.frames
  /\ status' = s.status
  /\ error' = s.error
  /\ UNCHANGED <<tokens, tcVars, scannerVars, extractVars>>

Running(fn) == status = "running" /\ Top.fn = fn

ParseDocument == status = "start" /\ Become(parseDocumentStart)

ParseDocumentContent == Running("parseDocumentContent") /\ Become(parseDocumentContentStep)

ParseContentGroup == Running("parseContentGroup") /\ Become(parseContentGroupStep)

ParseRevisionGroup == Running("parseRevisionGroup") /\ Become(parseRevisionGroupStep)

ParseFontTable == Running("parseFontTable") /\ Become(parseFontTableStep)

ParseFontDescriptor == Running("parseFontDescriptor") /\ Become(parseFontDescriptorStep)

ParseColorTable == Running("parseColorTable") /\ Become(parseColorTableStep)

ParseRevisionTable == Running("parseRevisionTable") /\ Become(parseRevisionTableStep)

ParseRevisionAuthor == Running("parseRevisionTable.author") /\ Become(parseRevisionAuthorStep)

SkipGroup == Running("skipGroup") /\ Become(skipGroupStep)

NextParse ==
  \/ ParseDocument
  \/ ParseDocumentContent
  \/ ParseContentGroup
  \/ ParseRevisionGroup
  \/ ParseFontTable
  \/ ParseFontDescriptor
  \/ ParseColorTable
  \/ ParseRevisionTable
  \/ ParseRevisionAuthor
  \/ SkipGroup

\* ------------------------------------------------------------------------
\* Parser: inputs.  A token stream is a document group around at most
\* MaxFragments fragments, or the fragments alone; a group nested deeper
\* than the depth limit of the security guide is added.
\* ------------------------------------------------------------------------
MaxFragments == 3

MAX_GROUP_DEPTH == 100

MAX_FONT_INDEX == 1000

Fragments ==
  {<<Text(<<"a">>)>>,
   <<ControlWord("par")>>,
   <<ControlWord("line")>>,
   <<ControlWord("b")>>,
   <<ControlWord("qc")>>,
   <<ControlWordParam("f", -1)>>,
   <<GroupStart>>,
   <<GroupEnd>>,
   <<GroupStart, ControlWord("fonttbl"), GroupStart, ControlWordParam("f", 9999),
     ControlWord("fnil"), Text(<<"A", ";">>), GroupEnd, GroupEnd>>,
   <<GroupStart, ControlWord("colortbl"), Text(<<";">>), ControlWordParam("red", 999),
     ControlWordParam("green", -50), ControlWordParam("blue", 300), Text(<<";">>), GroupEnd>>,
   <<GroupStart, Text(<<"*">>), ControlWord("revtbl"), GroupStart, Text(<<"A", ";">>),
     GroupEnd, GroupEnd>>,
   <<GroupStart, ControlWord("revised"), ControlWordParam("revauth", 1), Text(<<"x">>),
     GroupEnd>>,
   <<GroupStart, ControlWord("deleted"), Text(<<"y">>), GroupEnd>>,
   <<GroupStart, Text(<<"*">>), ControlWord("generator"), Text(<<"z">>), GroupEnd>>}

RECURSIVE Bodies(_)
Bodies(n) ==
  IF n = 0 THEN {<<>>}
  ELSE Bodies(n - 1) \cup {b \o f : b \in Bodies(n - 1), f \in Fragments}

\* {\rtf1 ...}
DocumentGroup(body) == <<GroupStart, ControlWordParam("rtf", 1)>> \o body \o <<GroupEnd>>

\* n nested groups around the body.
Nested(n, body) ==
  [i \in 1..2 * n + Len(body) |->
     IF i <= n THEN GroupStart
     ELSE IF i <= n + Len(body) THEN body[i - n]
     ELSE GroupEnd]

DeepInput == DocumentGroup(Nested(MAX_GROUP_DEPTH + 1, <<Text(<<"a">>)>>))

MAX_AUTHOR_INDEX == 1000

\* {\rtf1{\*\revtbl{A;}{A;}...}} with one author more than the limit of the
\* security guide.
LargeRevisionTable ==
  [head |-> <<GroupStart, ControlWordParam("rtf", 1), GroupStart, Text(<<"*">>),
              ControlWord("revtbl")>>,
   entry |-> <<GroupStart, Text(<<"A", ";">>), GroupEnd>>,
   times |-> MAX_AUTHOR_INDEX + 1,
   tail |-> <<GroupEnd, GroupEnd>>]

\* {\rtf1{\revised\b x}a}: character formatting set inside a revision group.
FormattedRevision ==
  DocumentGroup(<<GroupStart, ControlWord("revised"), ControlWord("b"), Text(<<"x">>),
                  GroupEnd, Text(<<"a">>)>>)

\* {\rtf1{\fonttbl{\f0\fnil A{\*\falt B};}}a}: a font entry that holds a nested
\* group (an alternate font name), then text.
FontWithAlternate ==
  DocumentGroup(<<GroupStart, ControlWord("fonttbl"), GroupStart, ControlWordParam("f", 0),
                  ControlWord("fnil"), Text(<<"A">>), GroupStart, Text(<<"*">>),
                  ControlWord("falt"), Text(<<"B">>), GroupEnd, Text(<<";">>), GroupEnd,
                  GroupEnd, Text(<<"a">>)>>)

\* {\rtf1{\qc a}b\par}: a paragraph-formatting control word inside a group.
AlignedGroup ==
  DocumentGroup(<<GroupStart, ControlWord("qc"), Text(<<"a">>), GroupEnd, Text(<<"b">>),
                  ControlWord("par")>>)

\* {\rtf1{\b a}{\fonttbl{\f0 A  -- the input ends inside a font entry, after
\* a formatting group: parseFontDescriptor's expect('groupEnd') throws.
TruncatedFontTable ==
  <<GroupStart, ControlWordParam("rtf", 1), GroupStart, ControlWord("b"), Text(<<"a">>),
    GroupEnd, GroupStart, ControlWord("fonttbl"), GroupStart, ControlWordParam("f", 0),
    Text(<<"A">>)>>

ParseInputs ==
  {Array(ts) : ts \in Bodies(MaxFragments) \cup {DocumentGroup(b) : b \in Bodies(MaxFragments)}
               \cup {DeepInput, FormattedRevision, FontWithAlternate, AlignedGroup,
                     TruncatedFontTable}}
  \cup {LargeRevisionTable}

TrackChangesIdle ==
  /\ heapDocs = <<>>
  /\ heapParas = <<>>
  /\ call = NoCall
  /\ retDoc = Null
  /\ nOps = 0

\* parseRTF: new Parser(tokens).parseDocument()
InitParse ==
  /\ tokens \in ParseInputs
  /\ pos = 0
  /\ formattingStack = <<NoFormatting>>
  /\ paragraphState = NoFormatting
  /\ parsedDoc = [type |-> "none"]
  /\ frames = <<>>
  /\ status = "start"
  /\ error = ""
  /\ TrackChangesIdle
  /\ TokenizerIdle
  /\ ExtractIdle

SpecParse == InitParse /\ [][NextParse]_vars

\* ------------------------------------------------------------------------
\* Vocabulary of the track-changes properties
\* ------------------------------------------------------------------------
\* The document the last call returned.
Returned == DocAt(retDoc)

IdsOf(doc) == {getTrackChanges(doc)[j].id : j \in 1..Len(getTrackChanges(doc))}

SingleChangeOps == {"acceptChange", "rejectChange"}

AllChangesOps == {"acceptAllChanges", "rejectAllChanges"}

\* A revision node occurs somewhere in the trees of nodes.
RECURSIVE ContainsRevision(_)
ContainsRevision(nodes) ==
  \E i \in 1..Len(nodes) :
    nodes[i].type = "revision" \/ (nodes[i].type # "text" /\ ContainsRevision(nodes[i].content))

DocContainsRevision(doc) ==
  \E p \in 1..Len(doc.content) : ContainsRevision(doc.content[p].content)

\* Revisions met before inline node i of paragraph p (both 1-based) when the
\* paragraphs are read in order and each paragraph's inline nodes in order.
RECURSIVE RevisionsBefore(_, _, _)
RevisionsBefore(doc, p, i) ==
  IF p = 0 THEN 0
  ELSE RevisionCount(SubSeq(doc.content[p].content, 1, i - 1))
       + (IF p = 1 THEN 0
          ELSE RevisionsBefore(doc, p - 1, Len(doc.content[p - 1].content) + 1))

\* The call unwraps a revision of type t (and removes one of the other type).
Unwraps(op, t) ==
  \/ op = "acceptChange" /\ t = "insertion"
  \/ op = "rejectChange" /\ t = "deletion"

\* The paragraphs of the last call's argument as they were before the call.
BeforeContent == IF call.op = "none" THEN <<>> ELSE call.before.content

\* Inline node i of paragraph p of the argument is the revision the last
\* call addressed by its id.
Addressed(p, i) ==
  /\ call.op \in SingleChangeOps
  /\ call.before.content[p].content[i].type = "revision"
  /\ ChangeId(RevisionsBefore(call.before, p, i)) = call.changeId

\* ------------------------------------------------------------------------
\* C1: acceptAllChanges is idempotent and leaves no change: accepting all
\* changes of the document acceptAllChanges returned gives an equal document,
\* and getTrackChanges of the returned document is empty.
\* ------------------------------------------------------------------------
C1_AcceptAllIdempotent ==
  call.op = "acceptAllChanges" =>
    LET again == acceptAllChanges(heapDocs, heapParas, retDoc)
    IN /\ getTrackChanges(Returned) = <<>>
       /\ Deref(again.docs, again.paras, again.ref) = Returned

\* ------------------------------------------------------------------------
\* C2 as stated: after acceptChange or rejectChange with the id of a change
\* of the argument, no record of the returned document has that id.
\* ------------------------------------------------------------------------
C2_IdGoneAfterResolve ==
  (call.op \in SingleChangeOps /\ call.changeId \in IdsOf(call.before)) =>
    /\ retDoc # Null
    /\ call.changeId \notin IdsOf(Returned)

\* C2 amended: acceptChange and rejectChange with the id of a change of the
\* argument return a document from which the addressed revision is gone: it
\* has one change record fewer than the argument, plus one for every revision
\* among the children an unwrap spliced in; ids being positional, the id is
\* absent from the result exactly when the addressed change was the last one
\* and no spliced revision took its place.
C2_ResolveRemovesAddressed ==
  \A p \in 1..Len(BeforeContent) : \A i \in 1..Len(BeforeContent[p].content) :
    Addressed(p, i) =>
      LET target == call.before.content[p].content[i]
          spliced == IF Unwraps(call.op, target.revisionType)
                     THEN RevisionCount(target.content) ELSE 0
          before == Len(getTrackChanges(call.before))
      IN /\ call.changeId \in IdsOf(call.before)
         /\ retDoc # Null
         /\ Len(getTrackChanges(Returned)) = before - 1 + spliced
         /\ (call.changeId \notin IdsOf(Returned)) <=>
              (RevisionsBefore(call.before, p, i) = before - 1 /\ spliced = 0)

C2_Witness ==
  \E p \in 1..Len(BeforeContent) : \E i \in 1..Len(BeforeContent[p].content) :
    /\ Addressed(p, i)
    /\ Len(getTrackChanges(call.before)) >= 2
    /\ call.changeId \in IdsOf(Returned)

\* ------------------------------------------------------------------------
\* C3: no track-changes call mutates its argument: after the call, whether
\* it returned a document or null, the argument is structurally what it was
\* before the call and getTrackChanges on it reports the same changes.
\* ------------------------------------------------------------------------
C3_ArgumentUntouched ==
  call.op # "none" =>
    /\ DocAt(call.arg) = call.before
    /\ getTrackChanges(DocAt(call.arg)) = getTrackChanges(call.before)

C3_Witness ==
  /\ call.op = "acceptChange"
  /\ retDoc # Null
  /\ Returned.content # call.before.content
  /\ DocAt(call.arg) = call.before

\* ------------------------------------------------------------------------
\* C4: acceptChange replaces an insertion, at its position in the paragraph,
\* by its children in their order and removes a deletion with its children;
\* rejectChange removes an insertion and unwraps a deletion.
\* ------------------------------------------------------------------------
C4_UnwrapOrRemoveInPlace ==
  \A p \in 1..Len(BeforeContent) : \A i \in 1..Len(BeforeContent[p].content) :
    Addressed(p, i) =>
      LET content == call.before.content[p].content
          target == content[i]
      IN /\ retDoc # Null
         /\ Returned.content[p].content =
              SubSeq(content, 1, i - 1)
              \o (IF Unwraps(call.op, target.revisionType) THEN target.content ELSE <<>>)
              \o SubSeq(content, i + 1, Len(content))

C4_Witness ==
  \E p \in 1..Len(BeforeContent) : \E i \in 2..Len(BeforeContent[p].content) :
    /\ Addressed(p, i)
    /\ call.op = "acceptChange"
    /\ call.before.content[p].content[i].revisionType = "insertion"
    /\ call.before.content[p].content[i].content # <<>>
    /\ Returned.content[p].content[i] = call.before.content[p].content[i].content[1]

\* ------------------------------------------------------------------------
\* C5: acceptChange and rejectChange return null whenever the id is not the
\* id of a change of the argument: a stale id or any other string.
\* ------------------------------------------------------------------------
C5_UnknownIdReturnsNull ==
  (call.op \in SingleChangeOps /\ call.changeId \notin IdsOf(call.before)) =>
    retDoc = Null

C5_Witness ==
  /\ call.op \in SingleChangeOps
  /\ call.changeId \notin IdsOf(call.before)
  /\ IdsOf(call.before) # {}
  /\ retDoc = Null

\* ------------------------------------------------------------------------
\* C9: in every document, hasRevisions is true exactly when the document
\* contains a revision node.
\* ------------------------------------------------------------------------
HasRevisionsFlag(doc) == HasField(doc, "hasRevisions") /\ doc.hasRevisions

C9_HasRevisionsDerived ==
  \A ref \in DOMAIN heapDocs :
    HasRevisionsFlag(DocAt(ref)) <=> DocContainsRevision(DocAt(ref))

\* ------------------------------------------------------------------------
\* Vocabulary of the parser properties
\* ------------------------------------------------------------------------
\* Groups the parser is inside of, not counting the document group: one for
\* every active call below parseDocumentContent, and the groups skipGroup
\* has entered.
GroupDepth ==
  IF frames = <<>> THEN 0
  ELSE Len(frames) - 1 + (IF Top.fn = "skipGroup" /\ Top.depth > 0 THEN Top.depth - 1 ELSE 0)

\* The font, color and author indices stored in the trees of nodes.
RECURSIVE NodeIndices(_)
NodeIndices(nodes) ==
  IF nodes = <<>> THEN {}
  ELSE LET node == Head(nodes)
       IN (IF node.type = "text"
           THEN {node.formatting[f] :
                   f \in DOMAIN node.formatting \cap {"font", "foregroundColor", "backgroundColor"}}
           ELSE (IF HasField(node, "author") THEN {node.author} ELSE {})
                \cup NodeIndices(node.content))
          \cup NodeIndices(Tail(nodes))

DocumentIndices(d) ==
  {d.fontTable[i].index : i \in 1..Len(d.fontTable)}
  \cup UNION {NodeIndices(d.content[p].content) : p \in 1..Len(d.content)}

IsPar(token) == token.type = "controlWord" /\ token.name = "par"

ParBreaks(ts) == Cardinality({i \in 1..Len(ts) : IsPar(ts[i])})

\* A text token follows the last \par of the token stream.
TrailingContent(ts) ==
  \E i \in 1..Len(ts) : ts[i].type = "text" /\ \A j \in i + 1..Len(ts) : ~IsPar(ts[j])

\* Open groups after the first n tokens.
OpenGroups(ts, n) ==
  Cardinality({i \in 1..n : ts[i].type = "groupStart"})
  - Cardinality({i \in 1..n : ts[i].type = "groupEnd"})

\* The token stream is one balanced document group of text, \par, generic
\* groups and character or paragraph formatting: no destination, no table,
\* no revision and no \line.
PlainDocument(ts) ==
  /\ Len(ts) >= 2
  /\ ts[1].type = "groupStart"
  /\ OpenGroups(ts, Len(ts)) = 0
  /\ \A n \in 1..Len(ts) - 1 : OpenGroups(ts, n) > 0
  /\ \A i \in 1..Len(ts) :
       \/ ts[i].type \in {"groupStart", "groupEnd"}
       \/ ts[i].type = "text" /\ ts[i].value # Str(<<"*">>)
       \/ ts[i].type = "controlWord" /\ ts[i].name \in {"rtf", "par", "b", "qc", "f"}

\* ------------------------------------------------------------------------
\* C6: the parser is never inside more than MAX_GROUP_DEPTH nested groups.
\* ------------------------------------------------------------------------
C6_GroupDepthBounded == GroupDepth <= MAX_GROUP_DEPTH

\* ------------------------------------------------------------------------
\* C7: every font, color and author index stored in a document parseRTF
\* returns lies in [0, MAX_FONT_INDEX).
\* ------------------------------------------------------------------------
C7_IndicesInRange ==
  status = "done" => \A n \in DocumentIndices(parsedDoc) : 0 <= n /\ n < MAX_FONT_INDEX

\* ------------------------------------------------------------------------
\* C8: the number of paragraphs of the parsed document is the number of
\* \par breaks of the input, plus one when content follows the last break
\* (stated for plain document groups).
\* ------------------------------------------------------------------------
C8_ParagraphCount ==
  (status = "done" /\ PlainDocument(TokenArray)) =>
    Len(parsedDoc.content)
      = ParBreaks(TokenArray) + (IF TrailingContent(TokenArray) THEN 1 ELSE 0)

\* ------------------------------------------------------------------------
\* C10: every color stored in colorTable has r, g and b in 0..255.
\* ------------------------------------------------------------------------
C10_ColorsClamped ==
  status = "done" =>
    \A i \in 1..Len(parsedDoc.colorTable) :
      /\ parsedDoc.colorTable[i].r \in 0..255
      /\ parsedDoc.colorTable[i].g \in 0..255
      /\ parsedDoc.colorTable[i].b \in 0..255

\* ------------------------------------------------------------------------
\* C11: fontTable, colorTable and revisionTable of a parsed document each
\* hold at most MAX_AUTHOR_INDEX (= MAX_FONT_INDEX = 1000) entries.
\* ------------------------------------------------------------------------
C11_TableSizesBounded ==
  status = "done" =>
    /\ Len(parsedDoc.fontTable) <= MAX_FONT_INDEX
    /\ Len(parsedDoc.colorTable) <= MAX_AUTHOR_INDEX
    /\ Len(parsedDoc.revisionTable) <= MAX_AUTHOR_INDEX

\* ------------------------------------------------------------------------
\* Tokenizer (src/src/parser/tokenizer.ts).  The argument of tokenize is a
\* value of some JavaScript type; a string is the sequence of its runs, a
\* run [ch |-> c, n |-> k] being k consecutive characters c.  A token keeps
\* its pos; line and column, which nothing reads, are left out.
\* ------------------------------------------------------------------------
MAX_DOCUMENT_SIZE == 52428800

MAX_TEXT_CHUNK_SIZE == 1048576

MAX_CONTROL_WORD_LENGTH == 32

MAX_PARAM_DIGITS == 10

StringValue(runs) == [type |-> "string", runs |-> runs]

Run(c, k) == [ch |-> c, n |-> k]

\* The string whose characters are cs.
Chars(cs) == StringValue([i \in 1..Len(cs) |-> Run(cs[i], 1)])

\* Number of characters of a sequence of runs.
RECURSIVE Length(_)
Length(runs) ==
  IF runs = <<>> THEN 0
  ELSE IF Len(runs) = 1 THEN runs[1].n
  ELSE LET half == Len(runs) \div 2
       IN Length(SubSeq(runs, 1, half)) + Length(SubSeq(runs, half + 1, Len(runs)))

\* The run that holds the character at offset p < Length(runs), counted
\* from run number base + 1, and the character's offset in that run.
RECURSIVE Locate(_, _, _)
Locate(runs, p, base) ==
  IF Len(runs) = 1 THEN [run |-> base + 1, offset |-> p]
  ELSE LET half == Len(runs) \div 2
           left == SubSeq(runs, 1, half)
       IN IF p < Length(left) THEN Locate(left, p, base)
          ELSE Locate(SubSeq(runs, half + 1, Len(runs)), p - Length(left), base + half)

\* runs[p] (0-based), '' past the end.
CharIn(runs, p) ==
  IF p >= Length(runs) THEN "" ELSE runs[Locate(runs, p, 0).run].ch

\* runs.substring(p)
From(runs, p) ==
  IF p >= Length(runs) THEN <<>>
  ELSE LET at == Locate(runs, p, 0)
       IN <<Run(runs[at.run].ch, runs[at.run].n - at.offset)>>
          \o SubSeq(runs, at.run + 1, Len(runs))

\* Scanner.isEOF and Scanner.peek at offset p of the input.
scannerEOF(p) == p >= Length(rtf.runs)

scannerPeek(p) == CharIn(rtf.runs, p)

\* /[a-zA-Z]/
IsAlpha(c) ==
  c \in {"a", "b", "c", "d", "e", "f", "g", "h", "i", "j", "k", "l", "m", "n", "o", "p",
         "q", "r", "s", "t", "u", "v", "w", "x", "y", "z", "A", "B", "C", "D", "E", "F",
         "G", "H", "I", "J", "K", "L", "M", "N", "O", "P", "Q", "R", "S", "T", "U", "V",
         "W", "X", "Y", "Z"}

DigitValue ==
  [c \in {"0", "1", "2", "3", "4", "5", "6", "7", "8", "9"} |->
     CASE c = "0" -> 0 [] c = "1" -> 1 [] c = "2" -> 2 [] c = "3" -> 3 [] c = "4" -> 4
       [] c = "5" -> 5 [] c = "6" -> 6 [] c = "7" -> 7 [] c = "8" -> 8 [] c = "9" -> 9]

\* /\d/
IsDigit(c) == c \in DOMAIN DigitValue

\* parseInt(digits.join(''), 10) of a non-empty sequence of digits.
RECURSIVE parseDigits(_)
parseDigits(digits) ==
  IF digits = <<>> THEN 0
  ELSE 10 * parseDigits(SubSeq(digits, 1, Len(digits) - 1)) + DigitValue[digits[Len(digits)]]

\* The loop of scanControlWord that collects the letters of the name: the
\* position after it and the name.
RECURSIVE scanName(_, _, _)
scanName(p, name, length) ==
  IF ~scannerEOF(p) /\ IsAlpha(scannerPeek(p)) /\ length < MAX_CONTROL_WORD_LENGTH
  THEN scanName(p + 1, name \o scannerPeek(p), length + 1)
  ELSE [pos |-> p, name |-> name]

\* The loop of scanControlWord that collects the digits of the parameter.
RECURSIVE scanDigits(_, _)
scanDigits(p, paramChars) ==
  IF ~scannerEOF(p) /\ IsDigit(scannerPeek(p)) /\ Len(paramChars) < MAX_PARAM_DIGITS
  THEN scanDigits(p + 1, Append(paramChars, scannerPeek(p)))
  ELSE [pos |-> p, paramChars |-> paramChars]

\* scanControlWord called at offset p, the backslash consumed: the token and
\* the position after it.  A parameter of at most MAX_PARAM_DIGITS
\* characters is a safe integer, so Number.isSafeInteger holds of it.
scanControlWord(p) ==
  LET named == scanName(p, "", 0)
      q == named.pos
      hasParam == ~scannerEOF(q) /\ (scannerPeek(q) = "-" \/ IsDigit(scannerPeek(q)))
      negative == hasParam /\ scannerPeek(q) = "-"
      scanned == scanDigits(IF negative THEN q + 1 ELSE q, IF negative THEN <<"-">> ELSE <<>>)
      digits == IF negative THEN Tail(scanned.paramChars) ELSE scanned.paramChars
      afterParam == IF hasParam THEN scanned.pos ELSE q
      end == IF ~scannerEOF(afterParam) /\ scannerPeek(afterParam) = " "
             THEN afterParam + 1 ELSE afterParam
      word == [type |-> "controlWord", name |-> named.name, pos |-> p - 1]
  IN [pos |-> end,
      token |-> IF hasParam /\ digits # <<>>
                THEN word @@ [param |-> IF negative THEN -parseDigits(digits)
                                        ELSE parseDigits(digits)]
                ELSE word]

\* The printable ASCII characters, from code 32 on (the grave accent is
\* written U+96).
Ascii ==
  <<" ", "!", "\"", "#", "$", "%", "&", "'", "(", ")", "*", "+", ",", "-", ".", "/",
    "0", "1", "2", "3", "4", "5", "6", "7", "8", "9", ":", ";", "<", "=", ">", "?",
    "@", "A", "B", "C", "D", "E", "F", "G", "H", "I", "J", "K", "L", "M", "N", "O",
    "P", "Q", "R", "S", "T", "U", "V", "W", "X", "Y", "Z", "[", "\\", "]", "^", "_",
    "U+96", "a", "b", "c", "d", "e", "f", "g", "h", "i", "j", "k", "l", "m", "n", "o",
    "p", "q", "r", "s", "t", "u", "v", "w", "x", "y", "z", "{", "|", "}", "~">>

\* String.fromCharCode(code): the character of the code unit code mod 2^16,
\* written U+n (n in decimal) when it is not printable ASCII.
fromCharCode(code) ==
  LET unit == code % 65536
  IN IF unit \in 32..126 THEN Ascii[unit - 31] ELSE "U+" \o ToString(unit)

HexValue ==
  DigitValue @@ [c \in {"a", "b", "c", "d", "e", "f", "A", "B", "C", "D", "E", "F"} |->
                   CASE c \in {"a", "A"} -> 10 [] c \in {"b", "B"} -> 11
                     [] c \in {"c", "C"} -> 12 [] c \in {"d", "D"} -> 13
                     [] c \in {"e", "E"} -> 14 [] c \in {"f", "F"} -> 15]

\* /[0-9a-fA-F]/
IsHex(c) == c \in DOMAIN HexValue

\* scanHexEscape called at offset p, the backslash and the apostrophe
\* consumed.  parseInt of no digit is NaN, whose character is U+0.
scanHexEscape(p) ==
  LET first == ~scannerEOF(p) /\ IsHex(scannerPeek(p))
      second == first /\ ~scannerEOF(p + 1) /\ IsHex(scannerPeek(p + 1))
      charCode == IF second THEN 16 * HexValue[scannerPeek(p)] + HexValue[scannerPeek(p + 1)]
                  ELSE IF first THEN HexValue[scannerPeek(p)]
                  ELSE 0
  IN [pos |-> IF second THEN p + 2 ELSE IF first THEN p + 1 ELSE p,
      token |-> [type |-> "text", value |-> <<Run(fromCharCode(charCode), 1)>>, pos |-> p - 2]]

\* scanControlSymbol's symbolMap.
symbolMap(symbol) ==
  CASE symbol = "~" -> fromCharCode(160)
    [] symbol = "-" -> fromCharCode(173)
    [] symbol = "_" -> fromCharCode(8209)
    [] OTHER -> symbol

scanControlSymbol(symbol, backslashPos) ==
  IF symbol \in {"\\", "{", "}"}
  THEN [type |-> "text", value |-> <<Run(symbolMap(symbol), 1)>>, pos |-> backslashPos]
  ELSE [type |-> "controlSymbol", name |-> symbol, value |-> <<Run(symbolMap(symbol), 1)>>,
        pos |-> backslashPos]

\* accumulateText leaving the loop at the size limit instead of throwing.
RECURSIVE accumulateTextTruncating(_, _)
accumulateTextTruncating(rest, textChars) ==
  IF rest = <<>> \/ Head(rest).ch \in {"\\", "{", "}"}
  THEN [threw |-> FALSE, textChars |-> textChars]
  ELSE IF Length(textChars) + Head(rest).n > MAX_TEXT_CHUNK_SIZE
  THEN [threw |-> FALSE,
        textChars |-> Append(textChars,
                             Run(Head(rest).ch, MAX_TEXT_CHUNK_SIZE - Length(textChars)))]
  ELSE accumulateTextTruncating(Tail(rest), Append(textChars, Head(rest)))

\* The loop of tokenize that accumulates text, over the input from the
\* scanner's position on: the characters pushed and whether the size check
\* threw.  The iterations over one run are taken together: they push the
\* whole run unless textChars reaches MAX_TEXT_CHUNK_SIZE before its end.
RECURSIVE accumulateText(_, _)
accumulateText(rest, textChars) ==
  IF rest = <<>> \/ Head(rest).ch \in {"\\", "{", "}"}
  THEN [threw |-> FALSE, textChars |-> textChars]
  ELSE IF Length(textChars) + Head(rest).n > MAX_TEXT_CHUNK_SIZE
  THEN [threw |-> TRUE,
        textChars |-> IF Length(textChars) = MAX_TEXT_CHUNK_SIZE THEN textChars
                      ELSE Append(textChars,
                                  Run(Head(rest).ch, MAX_TEXT_CHUNK_SIZE - Length(textChars)))]
  ELSE accumulateText(Tail(rest), Append(textChars, Head(rest)))

\* The tokenizer's state as one record.
Scanning ==
  [scanPos |-> scanPos, tokOut |-> tokOut, tokStatus |-> tokStatus, tokError |-> tokError]

\* tokenize up to its loop: the check of the argument's type and the
\* Scanner's constructor.
tokenizeStart ==
  IF rtf.type # "string"
  THEN [Scanning EXCEPT !.tokStatus = "threw", !.tokError = "Input must be a string"]
  ELSE IF Length(rtf.runs) > MAX_DOCUMENT_SIZE
  THEN [Scanning EXCEPT !.tokStatus = "threw",
                        !.tokError = "Document size exceeds maximum allowed size"]
  ELSE [Scanning EXCEPT !.tokStatus = "scanning"]

\* The iteration of tokenize's loop on a backslash.
scanBackslash ==
  LET nextChar == scannerPeek(scanPos + 1)
      controlWord == scanControlWord(scanPos + 1)
      isUnicode == controlWord.token.name = "u" /\ HasField(controlWord.token, "param")
      param == controlWord.token.param
      charCode == IF param < 0 THEN 65536 + param ELSE param
      hex == scanHexEscape(scanPos + 2)
  IN IF IsAlpha(nextChar)
     THEN IF isUnicode
          THEN [Scanning EXCEPT
                  !.tokOut = Append(tokOut, [type |-> "text",
                                             value |-> <<Run(fromCharCode(charCode), 1)>>,
                                             pos |-> controlWord.token.pos]),
                  !.scanPos = IF scannerEOF(controlWord.pos) THEN controlWord.pos
                              ELSE controlWord.pos + 1]
          ELSE [Scanning EXCEPT !.tokOut = Append(tokOut, controlWord.token),
                                !.scanPos = controlWord.pos]
     ELSE IF nextChar = "'"
     THEN [Scanning EXCEPT !.tokOut = Append(tokOut, hex.token), !.scanPos = hex.pos]
     ELSE IF nextChar \in {"~", "-", "_", "\\", "{", "}"}
     THEN [Scanning EXCEPT !.tokOut = Append(tokOut, scanControlSymbol(nextChar, scanPos)),
                           !.scanPos = scanPos + 2]
     ELSE [Scanning EXCEPT !.scanPos = scanPos + 1]

\* The iteration of tokenize's loop on a character of text.
scanText ==
  LET text == accumulateText(From(rtf.runs, scanPos), <<>>)
  IN IF text.threw
     THEN [Scanning EXCEPT !.scanPos = scanPos + Length(text.textChars),
                           !.tokStatus = "threw",
                           !.tokError = "Text chunk exceeds maximum size"]
     ELSE [Scanning EXCEPT
             !.scanPos = scanPos + Length(text.textChars),
             !.tokOut = IF text.textChars # <<>>
                        THEN Append(tokOut, [type |-> "text", value |-> text.textChars,
                                             pos |-> scanPos])
                        ELSE tokOut]

\* One iteration of tokenize's loop, or its return.
tokenizeStep ==
  LET char == scannerPeek(scanPos)
  IN IF scannerEOF(scanPos) THEN [Scanning EXCEPT !.tokStatus = "returned"]
     ELSE IF char = "\\" THEN scanBackslash
     ELSE IF char = "{"
     THEN [Scanning EXCEPT !.tokOut = Append(tokOut, [type |-> "groupStart", pos |-> scanPos]),
                           !.scanPos = scanPos + 1]
     ELSE IF char = "}"
     THEN [Scanning EXCEPT !.tokOut = Append(tokOut, [type |-> "groupEnd", pos |-> scanPos]),
                           !.scanPos = scanPos + 1]
     ELSE scanText

\* ------------------------------------------------------------------------
\* Tokenizer: actions and inputs.  The arguments are the values that are
\* no string, every string of at most MaxChars characters of Alphabet, and
\* strings with text runs and sizes around the limits.
\* ------------------------------------------------------------------------
BecomeScanning(s) ==
  /\ scanPos' = s.scanPos
  /\ tokOut' = s.tokOut
  /\ tokStatus' = s.tokStatus
  /\ tokError' = s.tokError
  /\ UNCHANGED <<rtf, tcVars, parserVars, extractVars>>

Tokenize == tokStatus = "start" /\ BecomeScanning(tokenizeStart)

TokenizeLoop == tokStatus = "scanning" /\ BecomeScanning(tokenizeStep)

NextTokenize == Tokenize \/ TokenizeLoop

MaxChars == 3

Alphabet == {"\\", "{", "}", "a", "u", " ", "1", "-", "'", "~", ";", "?"}

RECURSIVE CharSeqs(_)
CharSeqs(n) ==
  IF n = 0 THEN {<<>>}
  ELSE CharSeqs(n - 1) \cup {Append(cs, c) : cs \in CharSeqs(n - 1), c \in Alphabet}

NonStrings == {[type |-> t] : t \in {"null", "undefined", "number", "object"}}

\* The inputs of tests/security/dos.test.ts (Text Chunk Size Limit,
\* Document Size Limit) and text runs of one character less, exactly and
\* one character more than the limit, alone and after other tokens.
LargeStrings ==
  {StringValue(runs) : runs \in
     {<<Run("X", MAX_TEXT_CHUNK_SIZE - 1)>>,
      <<Run("X", MAX_TEXT_CHUNK_SIZE)>>,
      <<Run("X", MAX_TEXT_CHUNK_SIZE + 1)>>,
      <<Run("{", 1), Run("X", MAX_TEXT_CHUNK_SIZE - 1), Run("Y", 1), Run("}", 1)>>,
      <<Run("{", 1), Run("X", MAX_TEXT_CHUNK_SIZE - 1), Run("Y", 2), Run("}", 1)>>,
      <<Run("\\", 1), Run("u", 1), Run("1", 1), Run("X", MAX_TEXT_CHUNK_SIZE + 1)>>,
      <<Run("{", 1), Run("\\", 1), Run("r", 1), Run("t", 1), Run("f", 1), Run("1", 1),
        Run(" ", 1), Run("X", 2 * MAX_TEXT_CHUNK_SIZE), Run("}", 1)>>,
      <<Run("A", 500000), Run("\\", 1), Run("p", 1), Run("a", 1), Run("r", 1), Run(" ", 1),
        Run("A", 500000), Run("\\", 1), Run("p", 1), Run("a", 1), Run("r", 1), Run(" ", 1),
        Run("A", 500000)>>,
      <<Run("{", MAX_DOCUMENT_SIZE + 1)>>}}

\* Unicode directives at and beyond the ends of the range -32768..65535,
\* each followed by its alternate character and a letter, and a directive
\* right before a closing brace: \u65535?a  \u-32768?a  \u70000?a
\* \u-40000?a  {\u1}
UnicodeStrings ==
  {Chars(<<"\\", "u">> \o n \o <<"?", "a">>) :
     n \in {<<"6", "5", "5", "3", "5">>, <<"-", "3", "2", "7", "6", "8">>,
            <<"7", "0", "0", "0", "0">>, <<"-", "4", "0", "0", "0", "0">>}}
  \cup {Chars(<<"{", "\\", "u", "1", "}">>)}

\* Control words at and beyond the limits of the name and of the parameter:
\* a name of MAX_CONTROL_WORD_LENGTH letters and of one more, parameters of
\* MAX_PARAM_DIGITS digits, of one more and of 17 digits (beyond the safe
\* integers), and a negative parameter of MAX_PARAM_DIGITS digits.
LimitStrings ==
  {StringValue(runs) : runs \in
     {<<Run("\\", 1), Run("a", MAX_CONTROL_WORD_LENGTH), Run(" ", 1), Run("x", 1)>>,
      <<Run("\\", 1), Run("a", MAX_CONTROL_WORD_LENGTH + 1), Run(" ", 1), Run("x", 1)>>,
      <<Run("\\", 1), Run("a", 1), Run("1", MAX_PARAM_DIGITS), Run(" ", 1), Run("x", 1)>>,
      <<Run("\\", 1), Run("a", 1), Run("1", MAX_PARAM_DIGITS + 1), Run(" ", 1), Run("x", 1)>>,
      <<Run("\\", 1), Run("a", 1), Run("1", 17), Run(" ", 1), Run("x", 1)>>,
      <<Run("\\", 1), Run("a", 1), Run("-", 1), Run("1", MAX_PARAM_DIGITS), Run(" ", 1),
        Run("x", 1)>>}}

TokenizeInputs ==
  NonStrings \cup {Chars(cs) : cs \in CharSeqs(MaxChars)} \cup LargeStrings
  \cup UnicodeStrings \cup LimitStrings

InitTokenize ==
  /\ rtf \in TokenizeInputs
  /\ scanPos = 0
  /\ tokOut = <<>>
  /\ tokStatus = "start"
  /\ tokError = ""
  /\ ParserIdle
  /\ TrackChangesIdle
  /\ ExtractIdle

SpecTokenize == InitTokenize /\ [][NextTokenize]_vars

\* ------------------------------------------------------------------------
\* Vocabulary of the tokenizer properties
\* ------------------------------------------------------------------------
IsDelimiter(c) == c \in {"\\", "{", "}"}

\* The longest prefix of the runs that holds no backslash and no brace.
RECURSIVE PlainRun(_)
PlainRun(runs) ==
  IF runs = <<>> \/ IsDelimiter(Head(runs).ch) THEN <<>>
  ELSE <<Head(runs)>> \o PlainRun(Tail(runs))

\* The text tokens that come from accumulated text: they start at a
\* character of text, the ones of escapes and \u at a backslash.
AccumulatedTokens ==
  {i \in 1..Len(tokOut) :
     tokOut[i].type = "text" /\ ~IsDelimiter(scannerPeek(tokOut[i].pos))}

\* The offsets where a run of plain text begins right after a brace or at
\* the beginning of the input.
RunStarts ==
  {p \in {Length(SubSeq(rtf.runs, 1, k)) : k \in 0..Len(rtf.runs) - 1} :
     /\ ~IsDelimiter(scannerPeek(p))
     /\ p = 0 \/ scannerPeek(p - 1) \in {"{", "}"}}

\* ------------------------------------------------------------------------
\* C12: when tokenize returns, every token of accumulated text holds its
\* whole run, up to the next backslash, brace or the end of the input, of
\* at most MAX_TEXT_CHUNK_SIZE characters, and every run that begins after
\* a brace has its token; when the size check throws, the run at the
\* scanner's position is longer than MAX_TEXT_CHUNK_SIZE.
\* ------------------------------------------------------------------------
C12_TextRunsComplete ==
  /\ tokStatus = "returned" =>
       /\ \A i \in AccumulatedTokens :
            /\ tokOut[i].value = PlainRun(From(rtf.runs, tokOut[i].pos))
            /\ Length(tokOut[i].value) <= MAX_TEXT_CHUNK_SIZE
       /\ \A p \in RunStarts : \E i \in AccumulatedTokens : tokOut[i].pos = p
  /\ (tokStatus = "threw" /\ tokError = "Text chunk exceeds maximum size") =>
       Length(PlainRun(From(rtf.runs, scanPos - MAX_TEXT_CHUNK_SIZE))) > MAX_TEXT_CHUNK_SIZE

C12_Witness ==
  /\ tokStatus = "returned"
  /\ \E i \in AccumulatedTokens : Length(tokOut[i].value) = MAX_TEXT_CHUNK_SIZE
  /\ Len(tokOut) > 1

\* ------------------------------------------------------------------------
\* parseRTF (src/src/parser/parser.ts): tokenize the argument, construct a
\* Parser on the tokens and parse the document.
\* ------------------------------------------------------------------------
\* The characters of a string, each run written out.
RECURSIVE Expand(_)
Expand(runs) ==
  IF runs = <<>> THEN <<>>
  ELSE [i \in 1..Head(runs).n |-> [ch |-> Head(runs).ch]] \o Expand(Tail(runs))

\* The token as the parser reads it: its type, name, param and value.
ParserToken(token) ==
  LET fields == DOMAIN token \ {"pos"}
  IN [f \in fields |-> IF f = "value" THEN Expand(token.value) ELSE token[f]]

\* new Parser(tokens)
NewParser ==
  /\ tokStatus = "returned"
  /\ status = "idle"
  /\ tokens' = Array([i \in 1..Len(tokOut) |-> ParserToken(tokOut[i])])
  /\ pos' = 0
  /\ formattingStack' = <<NoFormatting>>
  /\ paragraphState' = NoFormatting
  /\ status' = "start"
  /\ UNCHANGED <<parsedDoc, frames, error, scannerVars, tcVars, extractVars>>

NextRTF == NextTokenize \/ NewParser \/ NextParse

\* A document with a font table, a color table, a revision table, an
\* ignorable destination, a revision and a formatting group.
SampleDocument ==
  <<"{", "\\", "r", "t", "f", "1", "\\", "a", "n", "s", "i", "{", "\\", "f", "o", "n",
    "t", "t", "b", "l", "{", "\\", "f", "0", "\\", "f", "r", "o", "m", "a", "n", " ",
    "A", ";", "}", "}", "{", "\\", "c", "o", "l", "o", "r", "t", "b", "l", ";", "\\",
    "r", "e", "d", "1", "\\", "g", "r", "e", "e", "n", "2", "\\", "b", "l", "u", "e",
    "3", ";", "}", "{", "\\", "*", "\\", "r", "e", "v", "t", "b", "l", "{", "U", ";",
    "}", "{", "J", ";", "}", "}", "{", "\\", "*", "\\", "g", "e", "n", "e", "r", "a",
    "t", "o", "r", " ", "z", "}", "T", "{", "\\", "r", "e", "v", "i", "s", "e", "d",
    "\\", "r", "e", "v", "a", "u", "t", "h", "1", "\\", "b", " ", "i", "}", "m", "\\",
    "p", "a", "r", "{", "\\", "i", " ", "q", "}", "r", "}">>

\* {\rtf1 a\~b\par{c\_}\-d}: the named control symbols in body text.
SymbolDocument ==
  <<"{", "\\", "r", "t", "f", "1", " ", "a", "\\", "~", "b", "\\", "p", "a", "r", "{",
    "c", "\\", "_", "}", "\\", "-", "d", "}">>

RTFInputs ==
  NonStrings \cup {Chars(cs) : cs \in CharSeqs(MaxChars) \cup {SampleDocument, SymbolDocument}}

InitRTF ==
  /\ rtf \in RTFInputs
  /\ scanPos = 0
  /\ tokOut = <<>>
  /\ tokStatus = "start"
  /\ tokError = ""
  /\ ParserIdle
  /\ TrackChangesIdle
  /\ ExtractIdle

SpecRTF == InitRTF /\ [][NextRTF]_vars

\* parseRTF threw: tokenize did, or the parser did.
Raised == tokStatus = "threw" \/ status = "threw"

MaxExtractParas == 2

MaxExtractNodes == 2

AuthorTables ==
  {<<>>,
   <<[index |-> 0, name |-> Str(<<"A", "n", "n">>)]>>,
   <<[index |-> 0, name |-> Str(<<"A", "n", "n">>)], [index |-> 1, name |-> Str(<<"B", "o">>)]>>}

ExtractNodes ==
  {TextNode(Str(<<"a">>), NoFormatting),
   RevisionNode("deletion", <<TextNode(Str(<<"d">>), NoFormatting)>>, NoFormatting),
   RevisionNode("insertion", <<TextNode(Str(<<"x">>), NoFormatting),
                               RevisionNode("deletion", <<TextNode(Str(<<"y">>), NoFormatting)>>,
                                            [author |-> 0])>>,
                [author |-> 0, timestamp |-> 2])}
  \cup {RevisionNode("insertion", <<TextNode(Str(<<"i">>), Bold)>>, [author |-> k]) :
          k \in {-1, 1, 2}}

RECURSIVE SeqsUpTo(_, _)
SeqsUpTo(S, n) ==
  IF n = 0 THEN {<<>>}
  ELSE SeqsUpTo(S, n - 1) \cup {Append(q, x) : q \in SeqsUpTo(S, n - 1), x \in S}

ExtractDocs ==
  {[type |-> "document", rtfVersion |-> 1, charset |-> "ansi", fontTable |-> <<>>,
    colorTable |-> <<>>, stylesheetTable |-> <<>>, revisionTable |-> table,
    content |-> paragraphs] :
     table \in AuthorTables,
     paragraphs \in SeqsUpTo({ParagraphNode(c, NoFormatting) :
                                c \in SeqsUpTo(ExtractNodes, MaxExtractNodes)},
                             MaxExtractParas)}

\* The paragraph-level revisions of the document, as <<paragraph, inline>>
\* (1-based): the nodes getTrackChanges visits.
VisitedRevisions(doc) ==
  {pi \in (1..Len(doc.content)) \X (1..MaxExtractNodes + 1) :
     /\ pi[2] <= Len(doc.content[pi[1]].content)
     /\ doc.content[pi[1]].content[pi[2]].type = "revision"}

\* getTrackChanges reads `.name` of undefined at some revision.
getTrackChangesThrows(doc) ==
  \E pi \in VisitedRevisions(doc) : authorLookupThrows(doc, doc.content[pi[1]].content[pi[2]])

InitExtract ==
  /\ changesDoc \in ExtractDocs
  /\ changes = <<>>
  /\ extractStatus = "called"
  /\ TrackChangesIdle
  /\ ParserIdle
  /\ TokenizerIdle

GetTrackChanges ==
  /\ extractStatus = "called"
  /\ IF getTrackChangesThrows(changesDoc)
     THEN extractStatus' = "threw" /\ changes' = changes
     ELSE extractStatus' = "returned" /\ changes' = getTrackChanges(changesDoc)
  /\ UNCHANGED <<changesDoc, tcVars, parserVars, scannerVars>>

SpecExtract == InitExtract /\ [][GetTrackChanges]_vars

\* ------------------------------------------------------------------------
\* Vocabulary of the getTrackChanges properties
\* ------------------------------------------------------------------------
\* The place of a visited revision in document order, from 1.
Rank(doc, pi) ==
  1 + Cardinality({qi \in VisitedRevisions(doc) :
                     qi[1] < pi[1] \/ (qi[1] = pi[1] /\ qi[2] < pi[2])})

NodeAt(doc, pi) == doc.content[pi[1]].content[pi[2]]

\* The name of the revision-table entry the node's author index selects,
\* "Unknown" when it selects none.
ExpectedAuthor(doc, node) ==
  IF HasField(node, "author") /\ node.author >= 0 /\ node.author < Len(doc.revisionTable)
  THEN doc.revisionTable[node.author + 1].name
  ELSE Str(<<"U", "n", "k", "n", "o", "w", "n">>)

\* ------------------------------------------------------------------------
\* C14: getTrackChanges never raises and reports for every revision the
\* name of the revision-table entry its author index selects, "Unknown"
\* when the index is out of the table's range (stated for the documents
\* whose revisions all carry an author index).
\* ------------------------------------------------------------------------
C14_AuthorNameOrUnknown ==
  (\A pi \in VisitedRevisions(changesDoc) : HasField(NodeAt(changesDoc, pi), "author")) =>
    /\ extractStatus # "threw"
    /\ extractStatus = "returned" =>
         \A pi \in VisitedRevisions(changesDoc) :
           changes[Rank(changesDoc, pi)].author = ExpectedAuthor(changesDoc, NodeAt(changesDoc, pi))

\* ------------------------------------------------------------------------
\* C15: acceptChange and rejectChange alter only the addressed revision: the
\* result has the paragraphs of the argument in their order, every other
\* paragraph and every other inline node of the revision's paragraph is
\* unchanged and in place, the paragraph stays in content when it is left
\* empty, and the tables and header fields are those of the argument.
\* ------------------------------------------------------------------------
C15_OnlyTargetAltered ==
  \A p \in 1..Len(BeforeContent) : \A i \in 1..Len(BeforeContent[p].content) :
    Addressed(p, i) =>
      /\ retDoc # Null
      /\ Len(Returned.content) = Len(BeforeContent)
      /\ \A q \in 1..Len(BeforeContent) : q # p => Returned.content[q] = BeforeContent[q]
      /\ Returned.content[p].type = "paragraph"
      /\ Returned.content[p].formatting = BeforeContent[p].formatting
      /\ LET old == BeforeContent[p].content
             new == Returned.content[p].content
             after == Len(old) - i
         IN /\ Len(new) >= Len(old) - 1
            /\ SubSeq(new, 1, i - 1) = SubSeq(old, 1, i - 1)
            /\ SubSeq(new, Len(new) - after + 1, Len(new)) = SubSeq(old, i + 1, Len(old))
      /\ \A f \in DOMAIN call.before \ {"content", "hasRevisions"} :
           Returned[f] = call.before[f]

C15_Witness ==
  \E p \in 1..Len(BeforeContent) :
    /\ Len(BeforeContent) = 2
    /\ Len(BeforeContent[p].content) = 1
    /\ Addressed(p, 1)
    /\ ~Unwraps(call.op, BeforeContent[p].content[1].revisionType)
    /\ retDoc # Null
    /\ Len(Returned.content) = 2
    /\ Returned.content[p].content = <<>>

\* ------------------------------------------------------------------------
\* C16: the array getTrackChanges returns is determined by the tree: it has
\* one record per paragraph-level revision, in paragraph order and then
\* inline order; the record of the k-th revision (from 0) has the id
\* change-k, the revision's type, text, author index and paragraph, and no
\* id occurs twice.
\* ------------------------------------------------------------------------
C16_IdsInDocumentOrder ==
  extractStatus = "returned" =>
    /\ Len(changes) = Cardinality(VisitedRevisions(changesDoc))
    /\ \A pi \in VisitedRevisions(changesDoc) :
         LET change == changes[Rank(changesDoc, pi)]
             node == NodeAt(changesDoc, pi)
         IN /\ change.id = "change-" \o ToString(Rank(changesDoc, pi) - 1)
            /\ change.type = node.revisionType
            /\ change.text = extractText(node.content)
            /\ change.position.paragraphIndex = pi[1] - 1
            /\ change.authorIndex = (IF HasField(node, "author") THEN node.author ELSE 0)
            /\ HasField(change, "timestamp") <=> HasField(node, "timestamp")
    /\ \A j, k \in 1..Len(changes) : changes[j].id = changes[k].id => j = k

C16_Witness ==
  /\ extractStatus = "returned"
  /\ Len(changes) = 3
  /\ changes[2].position.paragraphIndex = 0
  /\ changes[3].position.paragraphIndex = 1
  /\ changes[3].id = "change-2"

\* ------------------------------------------------------------------------
\* Vocabulary of the properties of groups
\* ------------------------------------------------------------------------
\* The token stream is one balanced document group {\rtf ...}.
Balanced(ts) ==
  /\ Len(ts) >= 3
  /\ ts[1].type = "groupStart"
  /\ ts[2].type = "controlWord" /\ ts[2].name = "rtf"
  /\ OpenGroups(ts, Len(ts)) = 0
  /\ \A n \in 1..Len(ts) - 1 : OpenGroups(ts, n) > 0

\* The token stream holds no table and no destination: only groups, text,
\* \par and \line, formatting, and revision groups with their author.
BodyOnly(ts) ==
  \A i \in 1..Len(ts) :
    \/ ts[i].type \in {"groupStart", "groupEnd"}
    \/ ts[i].type = "text" /\ ts[i].value # Str(<<"*">>)
    \/ /\ ts[i].type = "controlWord"
       /\ ts[i].name \in {"rtf", "par", "line", "b", "qc", "f", "revised", "deleted", "revauth"}

\* The groups that open with \revised or \deleted.
RevisionGroups(ts) ==
  {i \in 1..Len(ts) - 1 :
     /\ ts[i].type = "groupStart"
     /\ ts[i + 1].type = "controlWord"
     /\ ts[i + 1].name \in {"revised", "deleted"}}

\* Number of revision nodes in the trees of nodes.
RECURSIVE RevisionNodes(_)
RevisionNodes(nodes) ==
  IF nodes = <<>> THEN 0
  ELSE (IF Head(nodes).type = "revision" THEN 1 + RevisionNodes(Head(nodes).content) ELSE 0)
       + RevisionNodes(Tail(nodes))

RECURSIVE DocumentRevisionNodes(_)
DocumentRevisionNodes(paragraphs) ==
  IF paragraphs = <<>> THEN 0
  ELSE RevisionNodes(Head(paragraphs).content) + DocumentRevisionNodes(Tail(paragraphs))

\* ------------------------------------------------------------------------
\* C17: every group that opens with \revised or \deleted gives a revision
\* node of the document, wherever the group occurs (stated for balanced
\* document groups without tables and destinations).
\* ------------------------------------------------------------------------
C17_RevisionGroupsBecomeNodes ==
  (status = "done" /\ Balanced(TokenArray) /\ BodyOnly(TokenArray)) =>
    DocumentRevisionNodes(parsedDoc.content) = Cardinality(RevisionGroups(TokenArray))

\* Every character-formatting control word of the token stream is inside a
\* group nested in the document group.
FormattingInGroupsOnly(ts) ==
  \A i \in 1..Len(ts) :
    (ts[i].type = "controlWord" /\ isFormattingControlWord(ts[i].name)) => OpenGroups(ts, i) >= 2

\* ------------------------------------------------------------------------
\* C18: character formatting is scoped to its group: when every formatting
\* control word is inside a nested group (generic or revision), the
\* formatting in effect at the level of the document group, outside those
\* groups, is the initial, empty formatting.
\* ------------------------------------------------------------------------
C18_FormattingScopedToGroups ==
  (/\ status = "running"
   /\ Len(frames) = 1
   /\ Balanced(TokenArray)
   /\ BodyOnly(TokenArray)
   /\ FormattingInGroupsOnly(TokenArray)) =>
    formattingStack = <<NoFormatting>>

\* The token stream has a font, color or revision table.
HasTable(ts) ==
  \E i \in 1..Len(ts) :
    ts[i].type = "controlWord" /\ ts[i].name \in {"fonttbl", "colortbl", "revtbl"}

\* ------------------------------------------------------------------------
\* C19: the table sub-parsers consume exactly through the closing brace of
\* the table group, nested groups in an entry included: whenever the parser
\* is back in the content of the document group, the tokens it has consumed
\* leave exactly the document group open, and a finished parse has consumed
\* the whole stream, so the content after the table is parsed.
\* ------------------------------------------------------------------------
C19_TablesConsumeTheirGroup ==
  (/\ \/ status = "running" /\ Len(frames) = 1
      \/ status = "done"
   /\ HasTable(TokenArray)
   /\ Balanced(TokenArray)) =>
    IF status = "done" THEN pos = TokenCount ELSE OpenGroups(TokenArray, pos) = 1

\* Token i opens an ignorable destination other than the revision table:
\* { then * then a control word that is not \revtbl.
OpensDestination(ts, i) ==
  /\ i + 2 <= Len(ts)
  /\ ts[i].type = "groupStart"
  /\ ts[i + 1].type = "text" /\ ts[i + 1].value = Str(<<"*">>)
  /\ ts[i + 2].type = "controlWord" /\ ts[i + 2].name # "revtbl"

\* Token i is inside an ignorable destination: a destination opened before
\* it is still open at i.
InDestination(ts, i) ==
  \E j \in 1..i - 1 :
    /\ OpensDestination(ts, j)
    /\ \A k \in j..i : OpenGroups(ts, k) >= OpenGroups(ts, j)

\* All the text of the token stream is inside ignorable destinations, and
\* there is some.
TextInDestinationsOnly(ts) ==
  /\ \E i \in 1..Len(ts) : OpensDestination(ts, i)
  /\ \A i \in 1..Len(ts) : ts[i].type = "text" => InDestination(ts, i)

RECURSIVE TextCount(_)
TextCount(nodes) ==
  IF nodes = <<>> THEN 0
  ELSE (IF Head(nodes).type = "text" THEN 1
        ELSE IF Head(nodes).type = "revision" THEN TextCount(Head(nodes).content)
        ELSE 0)
       + TextCount(Tail(nodes))

RECURSIVE DocumentTextCount(_)
DocumentTextCount(paragraphs) ==
  IF paragraphs = <<>> THEN 0
  ELSE TextCount(Head(paragraphs).content) + DocumentTextCount(Tail(paragraphs))

\* ------------------------------------------------------------------------
\* C20: an ignorable destination other than \revtbl is skipped whole at any
\* nesting depth: when all the text of a balanced document group is inside
\* such destinations, no paragraph of the parsed document holds text, and
\* the parse consumes the whole stream.
\* ------------------------------------------------------------------------
C20_DestinationsSkipped ==
  (/\ status = "done"
   /\ TextInDestinationsOnly(TokenArray)
   /\ Balanced(TokenArray)) =>
    /\ DocumentTextCount(parsedDoc.content) = 0
    /\ pos = TokenCount

\* The scanner is at the backslash of a Unicode directive \uN.
UnicodeAt(p) ==
  /\ ~scannerEOF(p + 1)
  /\ scannerPeek(p) = "\\"
  /\ IsAlpha(scannerPeek(p + 1))
  /\ scanControlWord(p + 1).token.name = "u"
  /\ HasField(scanControlWord(p + 1).token, "param")

\* ------------------------------------------------------------------------
\* C21: on a Unicode directive \uN the tokenizer appends one text token
\* with the character of N (of N + 65536 for a negative N) when N is in
\* -32768..65535 and appends nothing otherwise; in both cases it goes on
\* right after the one character that follows the directive.
\* ------------------------------------------------------------------------
C21_UnicodeDirective ==
  [][(tokStatus = "scanning" /\ rtf.type = "string" /\ UnicodeAt(scanPos)) =>
       LET word == scanControlWord(scanPos + 1)
           N == word.token.param
       IN /\ tokOut' = IF N \in -32768..65535
                       THEN Append(tokOut,
                                   [type |-> "text",
                                    value |-> <<Run(fromCharCode(IF N < 0 THEN N + 65536 ELSE N), 1)>>,
                                    pos |-> scanPos])
                       ELSE tokOut
          /\ scanPos' = IF scannerEOF(word.pos) THEN word.pos ELSE word.pos + 1]_vars

\* The number of consecutive backslashes right before offset p.
RECURSIVE BackslashesBefore(_)
BackslashesBefore(p) ==
  IF p = 0 \/ scannerPeek(p - 1) # "\\" THEN 0 ELSE 1 + BackslashesBefore(p - 1)

\* The offsets of the unescaped occurrences of the brace c in the input: the
\* ones that no backslash escapes.
UnescapedBraces(c) ==
  {p \in UNION {{Length(SubSeq(rtf.runs, 1, k - 1)) + j : j \in 0..rtf.runs[k].n - 1} :
                  k \in {k \in 1..Len(rtf.runs) : rtf.runs[k].ch = c}} :
     BackslashesBefore(p) % 2 = 0}

\* The offsets of the tokens of a type.
TokenOffsets(type) == {tokOut[i].pos : i \in {i \in 1..Len(tokOut) : tokOut[i].type = type}}

\* ------------------------------------------------------------------------
\* C22: when tokenize returns, the groupStart tokens are exactly at the
\* unescaped { of the input and the groupEnd tokens exactly at the unescaped
\* }, one token per brace, in input order.
\* ------------------------------------------------------------------------
C22_GroupTokensMirrorBraces ==
  tokStatus = "returned" =>
    /\ TokenOffsets("groupStart") = UnescapedBraces("{")
    /\ TokenOffsets("groupEnd") = UnescapedBraces("}")
    /\ \A i, j \in 1..Len(tokOut) : i < j => tokOut[i].pos < tokOut[j].pos

\* The characters of the text of the nodes, the text inside revisions
\* included.
RECURSIVE NodeChars(_)
NodeChars(nodes) ==
  IF nodes = <<>> THEN {}
  ELSE (IF Head(nodes).type = "text"
        THEN {Head(nodes).content[k].ch : k \in 1..Len(Head(nodes).content)}
        ELSE IF Head(nodes).type = "revision" THEN NodeChars(Head(nodes).content)
        ELSE {})
       \cup NodeChars(Tail(nodes))

\* The characters of the text of paragraph k of the parsed document.
ParagraphChars(k) == NodeChars(parsedDoc.content[k].content)

\* The paragraph that the token at index i belongs to: one more than the
\* number of \par before it.
ParagraphOf(ts, i) == 1 + Cardinality({j \in 1..i - 1 : IsPar(ts[j])})

\* ------------------------------------------------------------------------
\* C23: a named control symbol (\~ \- \_) of the body text contributes its
\* decoded character to the paragraph where it occurs: in a finished parse
\* of a balanced document of text, symbols, \par, groups and formatting,
\* the paragraph of each symbol token holds the token's character.
\* ------------------------------------------------------------------------
C23_ControlSymbolsInContent ==
  (/\ status = "done"
   /\ Balanced(TokenArray)
   /\ BodyOnly(SelectSeq(TokenArray, LAMBDA t : t.type # "controlSymbol"))) =>
    \A i \in 1..TokenCount :
      TokenArray[i].type = "controlSymbol" =>
        /\ ParagraphOf(TokenArray, i) <= Len(parsedDoc.content)
        /\ TokenArray[i].value[1].ch \in ParagraphChars(ParagraphOf(TokenArray, i))

\* Token i is text that continues the control word before it: the word
\* ends at the token's first character without a delimiting space, on a
\* letter followed by a letter or on a digit followed by a digit.
ContinuesControlWord(i) ==
  /\ i > 1
  /\ tokOut[i].type = "text"
  /\ tokOut[i - 1].type = "controlWord"
  /\ LET last == scannerPeek(tokOut[i].pos - 1)
         first == scannerPeek(tokOut[i].pos)
     IN \/ IsAlpha(last) /\ IsAlpha(first)
        \/ IsDigit(last) /\ IsDigit(first)

\* ------------------------------------------------------------------------
\* C24: no character of a control word's name or parameter is emitted as
\* text: when tokenize returns, no text token begins with the letters of a
\* name or the digits of a parameter that the control word before it left.
\* ------------------------------------------------------------------------
C24_NoControlWordCharsAsText ==
  tokStatus = "returned" => \A i \in 1..Len(tokOut) : ~ContinuesControlWord(i)

\* The number of digits in the input from offset p on.
RECURSIVE DigitRunLength(_)
DigitRunLength(p) ==
  IF scannerEOF(p) \/ ~IsDigit(scannerPeek(p)) THEN 0 ELSE 1 + DigitRunLength(p + 1)

\* The number of digits that the input gives as the parameter of the
\* control word of token i, after the name and the sign.
WrittenDigits(i) ==
  LET q == scanName(tokOut[i].pos + 1, "", 0).pos
  IN DigitRunLength(IF ~scannerEOF(q) /\ scannerPeek(q) = "-" THEN q + 1 ELSE q)

\* The decimal digits of a natural number.
RECURSIVE Decimal(_)
Decimal(n) == IF n < 10 THEN <<n>> ELSE Append(Decimal(n \div 10), n % 10)

\* Number.MAX_SAFE_INTEGER = 2^53 - 1 = 9007199254740991, in decimal digits
\* (Number.MIN_SAFE_INTEGER is its negative).
MaxSafeIntegerDigits == <<9, 0, 0, 7, 1, 9, 9, 2, 5, 4, 7, 4, 0, 9, 9, 1>>

\* ------------------------------------------------------------------------
\* C25: the parameter of every control-word token is null or a safe
\* integer, and a parameter whose written value is outside the safe
\* integers (any value of more than 16 digits is) is clamped to the nearest
\* bound of the range.
\* ------------------------------------------------------------------------
C25_ParamClampedToSafeRange ==
  tokStatus = "returned" =>
    \A i \in 1..Len(tokOut) :
      (tokOut[i].type = "controlWord" /\ WrittenDigits(i) > Len(MaxSafeIntegerDigits)) =>
        /\ HasField(tokOut[i], "param")
        /\ Decimal(IF tokOut[i].param < 0 THEN -tokOut[i].param ELSE tokOut[i].param)
             = MaxSafeIntegerDigits

\* Every paragraph break of the token stream is a \par of the document
\* group itself: no \line, and no \par inside a nested group.
BreaksAtTopLevel(ts) ==
  \A i \in 1..Len(ts) :
    /\ ~(ts[i].type = "controlWord" /\ ts[i].name = "line")
    /\ IsPar(ts[i]) => OpenGroups(ts, i) = 1

\* ------------------------------------------------------------------------
\* C26: the paragraph state is not group-scoped: in a finished parse of a
\* balanced document of text, groups, formatting and \par, a \qc applies to
\* the paragraph being accumulated where it occurs, inside a nested group
\* or not: that paragraph, when the document has it, is centered.
\* ------------------------------------------------------------------------
C26_ParagraphStateNotGroupScoped ==
  (/\ status = "done"
   /\ Balanced(TokenArray)
   /\ BodyOnly(TokenArray)
   /\ BreaksAtTopLevel(TokenArray)) =>
    \A i \in 1..TokenCount :
      (/\ TokenArray[i].type = "controlWord"
       /\ TokenArray[i].name = "qc"
       /\ ParagraphOf(TokenArray, i) <= Len(parsedDoc.content)) =>
        /\ HasField(parsedDoc.content[ParagraphOf(TokenArray, i)].formatting, "alignment")
        /\ parsedDoc.content[ParagraphOf(TokenArray, i)].formatting.alignment = "center"

\* The document that acceptChange (removed = "deletion") or rejectChange
\* (removed = "insertion") with the id change-0 gives when it is applied to
\* its own result until it returns null.
RECURSIVE ResolveFirstRepeatedly(_, _, _, _)
ResolveFirstRepeatedly(hd, hp, ref, removed) ==
  LET r == resolveChange(hd, hp, ref, ChangeId(0), removed)
  IN IF r.ref = Null THEN Deref(hd, hp, ref)
     ELSE ResolveFirstRepeatedly(r.docs, r.paras, r.ref, removed)

\* The document that acceptAllChanges or rejectAllChanges returns.
ResolvedAtOnce(ref, removed) ==
  LET r == resolveAllChanges(heapDocs, heapParas, ref, removed)
  IN Deref(r.docs, r.paras, r.ref)

\* ------------------------------------------------------------------------
\* C27: for every document, acceptAllChanges gives the content that
\* accepting change-0 until acceptChange returns null gives, and
\* rejectAllChanges the content that rejecting change-0 until rejectChange
\* returns null gives.
\* ------------------------------------------------------------------------
C27_AllEqualsRepeatedFirst ==
  \A ref \in 1..Len(heapDocs) :
    \A removed \in {"deletion", "insertion"} :
      ResolvedAtOnce(ref, removed).content
        = ResolveFirstRepeatedly(heapDocs, heapParas, ref, removed).content

\* The text nodes among the nodes, the ones inside revisions included, in
\* order.
RECURSIVE FlatText(_)
FlatText(nodes) ==
  IF nodes = <<>> THEN <<>>
  ELSE (IF Head(nodes).type = "text" THEN <<Head(nodes)>>
        ELSE IF Head(nodes).type = "revision" THEN FlatText(Head(nodes).content)
        ELSE <<>>)
       \o FlatText(Tail(nodes))

\* The inline nodes that an active call has collected so far.
FrameNodes(f) ==
  IF "currentParagraph" \in DOMAIN f THEN f.currentParagraph
  ELSE IF "nodes" \in DOMAIN f THEN f.nodes
  ELSE IF "revContent" \in DOMAIN f THEN f.revContent
  ELSE <<>>

\* The text nodes of the paragraphs lo..hi of the document under
\* construction, and the ones the active calls lo..hi hold, outermost first.
RECURSIVE ParagraphsText(_, _)
ParagraphsText(lo, hi) ==
  IF lo > hi THEN <<>>
  ELSE IF lo = hi THEN FlatText(parsedDoc.content[lo].content)
  ELSE ParagraphsText(lo, (lo + hi) \div 2) \o ParagraphsText((lo + hi) \div 2 + 1, hi)

RECURSIVE FramesText(_, _)
FramesText(lo, hi) ==
  IF lo > hi THEN <<>>
  ELSE IF lo = hi THEN FlatText(FrameNodes(frames[lo]))
  ELSE FramesText(lo, (lo + hi) \div 2) \o FramesText((lo + hi) \div 2 + 1, hi)

\* Every TextNode created so far in the parse, in the order of creation.
CreatedTextNodes ==
  IF status \in {"running", "done", "threw"} /\ parsedDoc.type = "document"
  THEN ParagraphsText(1, Len(parsedDoc.content)) \o FramesText(1, Len(frames))
  ELSE <<>>

IsPrefix(s, t) == Len(s) <= Len(t) /\ SubSeq(t, 1, Len(s)) = s

TokenizeLoopFair == []<>(tokStatus # "scanning") \/ []<><<TokenizeLoop>>_vars

SpecRTFLive ==
  /\ InitRTF
  /\ [][NextRTF]_vars
  /\ WF_vars(Tokenize)
  /\ TokenizeLoopFair
  /\ WF_vars(NewParser)
  /\ WF_vars(NextParse)

\* parseRTF is over: it raised an error or returned the document.
Finished == Raised \/ status = "done"

\* An iteration of the tokenizer's loop consumes at least one character; an
\* iteration of a parser loop consumes at least one token, and a step that
\* consumes none is the return of a call.
Consumes ==
  /\ (tokStatus = "scanning" /\ tokStatus' = "scanning") => scanPos' > scanPos
  /\ (status = "running" /\ status' = "running") =>
       \/ pos' > pos
       \/ pos' = pos /\ Len(frames') < Len(frames)

\* ------------------------------------------------------------------------
\* C29: tokenize and parseRTF terminate on every input, with a document or
\* a raised error: every iteration of the tokenizer's loop consumes at least
\* one character, every iteration of a parser loop at least one token, and
\* the call ends.
\* ------------------------------------------------------------------------
C29_Terminates == [][Consumes]_vars /\ <>Finished

\* A parse that returned the document after steps in nested calls.
C29_Witness ==
  /\ status = "done"
  /\ tokStatus = "returned"
  /\ Len(parsedDoc.content) = 2
  /\ pos = TokenCount

\* The parser finished: parseDocument returned the document or an Error
\* propagated out of it.
ParserFinished == status \in {"done", "threw"}

====
